---- MODULE Spec2Model ----
(***************************************************************************)
(* Model of the real-estate listing backend: the static catalog, the       *)
(* filter / metrics / sort / paginate pipeline of app_util.py, the         *)
(* dynamic metrics calculator of dynamic_re_metrics_processor.py and the   *)
(* listing routes of app.py that drive them.                               *)
(*                                                                         *)
(* Units.  Static money fields are whole dollars.  Derived money is kept   *)
(* in cents (the pipeline rounds derived columns to 2 decimals).  Annual   *)
(* rates of the catalog are in hundredths of a percent (650 = 6.50 %).     *)
(* Rate factors are in parts per million.  Ratios (CoC, cap rate) are in   *)
(* hundredths after rounding.  Division is floor division.                 *)
(***************************************************************************)
EXTENDS Integers, Sequences, FiniteSets, TLC

VARIABLES
    catalog,          \* BACKEND_PROPERTIES_DF: the rows, in natural row order
    saved,            \* User.saved of the authenticated user
    request,          \* the parameter mapping of the last explore request
    run,              \* what the last explore request did, stage by stage
    currentMonth,     \* CURRENT_MONTH, evaluated once when the module is imported
    nowMonth,         \* datetime.now().month, the wall clock
    setIndexer,       \* how the installed pandas treats df.loc[<set>]
    quicksortTies,    \* how the installed quicksort leaves rows with equal keys
    lastCall,         \* the last direct call of calculate_dynamic_metrics
    remembered,       \* one earlier direct call, kept for comparison
    called,           \* the last direct call of another function, with its result
    labels,           \* the column labels of BACKEND_PROPERTIES_DF
    threads,          \* the requests in flight, one per worker thread
    files,            \* the time-series cache files, by ticker
    series,           \* INDEX_DATA_DICT and RF_DATA as the process holds them
    users,            \* the rows of the user table
    mailbox,          \* the signed tokens generated and mailed, with their age
    tasks             \* the send_async_email tasks, in the order queued

\* the state outside the listing pipeline and the calculator
services == <<labels, threads, files, series, users, mailbox, tasks>>

vars == <<catalog, saved, request, run, currentMonth, nowMonth, setIndexer,
          quicksortTies, lastCall, remembered, called, services>>

----------------------------------------------------------------------------
(* Bounds of the model. *)

NumProperties == 4
MaxPage == 4
MaxPerPage == 3
MaxTicks == 2
BreakevenTolerance == 500
MaxFileAge == 3
NumThreads == 2

MaxTokenAge == 3

MaxTasks == 2

(* Program constants. *)

MONTHS_IN_YEAR == 12
FIXED_FEE_TOTAL == 1790
VACANCY_RATE_PCT == 10
MONTHLY_MAINTENANCE_RATE_PPM == 170
PRINCIPAL_AND_INTEREST_DEDUCTION_PCT == 4
DEFAULT_DOWN_PAYMENT == 20
MAX_DATA_AGE_DAYS == 1
HalfDaysPerDay == 2

\* a string field that is missing from the mapping, None or ''
Missing == ""

----------------------------------------------------------------------------
(* Generic helpers. *)

Range(s) == {s[i] : i \in 1..Len(s)}

Min(a, b) == IF a <= b THEN a ELSE b

\* floor(a * b / d) without forming a * b
MulDiv(a, b, d) == (a \div d) * b + ((a % d) * b) \div d

\* math.ceil(a / b) for a >= 0, b >= 1
Ceil(a, b) == (a + b - 1) \div b

\* the elements of a finite set of integers in ascending order
RECURSIVE Ascending(_)
Ascending(S) ==
    IF S = {} THEN << >>
    ELSE LET m == CHOOSE x \in S : \A y \in S : x <= y
         IN <<m>> \o Ascending(S \ {m})

\* python slice s[a:b] for 0 <= a <= b
Slice(s, a, b) ==
    LET lo == Min(a, Len(s))
        hi == Min(b, Len(s))
    IN [i \in 1..(hi - lo) |-> s[lo + i]]

----------------------------------------------------------------------------
(* The static catalog (property_static_df.parquet) and the region map.     *)

\* street addresses are sequences of characters
Lower(c) ==
    CASE c = "O" -> "o"
      [] c = "E" -> "e"
      [] c = "A" -> "a"
      [] OTHER -> c

LowerAll(s) == [i \in 1..Len(s) |-> Lower(s[i])]

Contains(s, sub) ==
    \E k \in 0..(Len(s) - Len(sub)) : \A j \in 1..Len(sub) : s[k + j] = sub[j]

\* a missing (NaN) street address is the empty sequence
NaNAddress == << >>

\* Series.str.contains(pat, case=False, na=False) for a literal pattern
StrContains(address, pat) ==
    IF address = NaNAddress THEN FALSE
    ELSE Contains(LowerAll(address), LowerAll(pat))

\* row i of the parquet file; the index (zpid) is not in row order
PropertyRow(i) ==
    [ zpid                          |-> NumProperties + 1 - i,
      purchase_price                |-> 200000 + 100000 * ((i - 1) % 3),
      home_type                     |-> IF i % 2 = 1 THEN "SINGLE_FAMILY" ELSE "CONDO",
      year_built                    |-> 1980 + 10 * i,
      bedrooms                      |-> 2 + ((i - 1) % 2),
      bathrooms                     |-> 1 + ((i - 1) \div 2),
      zip_code                      |-> 33101 + (i % 2),
      city                          |-> IF i % 2 = 1 THEN "Miami" ELSE "Tampa",
      street_address                |-> IF i % 3 = 0 THEN NaNAddress
                                        ELSE IF i % 3 = 1 THEN <<"O", "a", "k">>
                                        ELSE <<"E", "l", "m">>,
      is_waterfront                 |-> IF i = 2 THEN "True" ELSE "False",
      monthly_restimate             |-> 2500,
      annual_property_tax_rate      |-> 100,
      annual_mortgage_rate          |-> 600,
      monthly_homeowners_insurance  |-> 150,
      monthly_hoa                   |-> 0 ]

LoadCatalog == [i \in 1..NumProperties |-> PropertyRow(i)]

REGION_TO_ZIP_CODE(region) ==
    CASE region = "MIAMI_AREA" -> {33102}
      [] region = "TAMPA_AREA" -> {33101}

Regions == {"MIAMI_AREA", "TAMPA_AREA"}

----------------------------------------------------------------------------
(* Fee and amortization calculator (dynamic_re_metrics_processor.py).      *)
(* A down payment is a whole percentage pct, the fraction pct / 100.       *)

\* round-half-up quotient a / b for b > 0
RoundDiv(a, b) == (2 * a + b) \div (2 * b)

\* DOWN_PAYMENT_TO_ANNUAL_PMI_RATE, keys in percent, rates in ppm
PmiBreakpoints == <<3, 5, 10, 15, 20>>

PmiRateAt(dp) ==
    CASE dp = 3 -> 6000
      [] dp = 5 -> 4500
      [] dp = 10 -> 3000
      [] dp = 15 -> 1500
      [] dp = 20 -> 0

\* np.interp(x, xs, ys) for xs[1] <= x <= xs[Len(xs)]
Interp(x, xs) ==
    LET k == CHOOSE j \in 1..(Len(xs) - 1) : xs[j] <= x /\ x <= xs[j + 1]
        x0 == xs[k]
        x1 == xs[k + 1]
        y0 == PmiRateAt(x0)
        y1 == PmiRateAt(x1)
    IN y0 + ((y1 - y0) * (x - x0)) \div (x1 - x0)

\* the rate of the tier at or below pct, without interpolation
get_annual_pmi_rate_stepwise(pct) ==
    IF pct >= 20 THEN 0
    ELSE IF pct < PmiBreakpoints[1] THEN PmiRateAt(PmiBreakpoints[1])
    ELSE LET k == CHOOSE j \in 1..Len(PmiBreakpoints) :
                      /\ PmiBreakpoints[j] <= pct
                      /\ \A i \in 1..Len(PmiBreakpoints) :
                            PmiBreakpoints[i] <= pct => PmiBreakpoints[i] <= PmiBreakpoints[j]
         IN PmiRateAt(PmiBreakpoints[k])

\* annual PMI rate in ppm
get_annual_pmi_rate(pct) ==
    IF pct >= 20 THEN 0
    ELSE IF pct < PmiBreakpoints[1] THEN PmiRateAt(PmiBreakpoints[1])
    ELSE Interp(pct, PmiBreakpoints)

\* r(1+r)^n (1 - deduction) / ((1+r)^n - 1) for r = rate / 12, n = 360, in ppm,
\* tabulated for the annual rates (hundredths of a percent) of the catalog
calculate_monthly_mortgage_rate(annual_mortgage_rate) ==
    CASE annual_mortgage_rate = 0 -> 0
      [] annual_mortgage_rate = 600 -> 5755
      [] annual_mortgage_rate = 650 -> 6067
      [] annual_mortgage_rate = 700 -> 6386

\* total purchase fees in cents
calculate_purchase_fees(purchase_price, pct) ==
    LET origination_fee == MulDiv(purchase_price, 75, 100)
        lenders_title_insurance_fee ==
            IF purchase_price >= 100000
            THEN 57500 + MulDiv(purchase_price - 100000, 5, 10)
            ELSE 57500
        owners_title_insurance_fee ==
            IF purchase_price >= 100000
            THEN 4000 + MulDiv(purchase_price - 100000, 2441, 10000)
            ELSE 4000
        financed_amount == MulDiv(purchase_price, 100 - pct, 100)
        state_and_stamps_tax == MulDiv(financed_amount, 105, 100)
        intangible_tax == MulDiv(financed_amount, 2, 10)
    IN origination_fee + lenders_title_insurance_fee + owners_title_insurance_fee
       + state_and_stamps_tax + intangible_tax

\* the clock read when the costs are computed
EscrowMonthAtCall == nowMonth

\* the month that prorates the prepaid escrow: CURRENT_MONTH, set at import
EscrowMonth == currentMonth

\* the monthly costs with the loan taken as down payment minus price
calculate_monthly_costs_negated_loan(row, pct) ==
    LET loan_dollars == 0 - MulDiv(row.purchase_price, 100 - pct, 100)
        monthly_mortgage_payment ==
            MulDiv(loan_dollars, calculate_monthly_mortgage_rate(row.annual_mortgage_rate), 10000)
        monthly_property_tax ==
            MulDiv(row.purchase_price, row.annual_property_tax_rate, 100 * MONTHS_IN_YEAR)
        monthly_pmi ==
            MulDiv(row.purchase_price, get_annual_pmi_rate(pct), 10000 * MONTHS_IN_YEAR)
        prepaid_costs ==
            (monthly_property_tax + 100 * row.monthly_homeowners_insurance) * EscrowMonth
    IN [monthly_costs |-> monthly_mortgage_payment + monthly_pmi + monthly_property_tax
                          + 100 * row.monthly_homeowners_insurance + 100 * row.monthly_hoa,
        cash_invested |-> row.purchase_price * pct + 100 * FIXED_FEE_TOTAL + prepaid_costs
                          + calculate_purchase_fees(row.purchase_price, pct),
        prepaid_costs |-> prepaid_costs]

\* (monthly_costs, cash_invested, prepaid_costs) of one row, in cents
calculate_monthly_costs(row, pct) ==
    LET down_payment == row.purchase_price * pct
        loan_dollars == MulDiv(row.purchase_price, 100 - pct, 100)
        monthly_mortgage_payment ==
            MulDiv(loan_dollars, calculate_monthly_mortgage_rate(row.annual_mortgage_rate), 10000)
        monthly_property_tax ==
            MulDiv(row.purchase_price, row.annual_property_tax_rate, 100 * MONTHS_IN_YEAR)
        monthly_pmi ==
            MulDiv(row.purchase_price, get_annual_pmi_rate(pct), 10000 * MONTHS_IN_YEAR)
        monthly_costs ==
            monthly_mortgage_payment + monthly_pmi + monthly_property_tax
            + 100 * row.monthly_homeowners_insurance + 100 * row.monthly_hoa
        prepaid_real_estate_tax_escrow == monthly_property_tax * EscrowMonth
        prepaid_insurance_escrow == 100 * row.monthly_homeowners_insurance * EscrowMonth
        prepaid_costs == prepaid_real_estate_tax_escrow + prepaid_insurance_escrow
        cash_invested ==
            down_payment + 100 * FIXED_FEE_TOTAL + prepaid_costs
            + calculate_purchase_fees(row.purchase_price, pct)
    IN [monthly_costs |-> monthly_costs, cash_invested |-> cash_invested,
        prepaid_costs |-> prepaid_costs]

\* breakeven purchase price in whole dollars (annual_cash_flow_rate = 0)
purchase_price_from_cash_flow_percentage(row, pct) ==
    LET monthly_cost_rate ==
            MONTHLY_MAINTENANCE_RATE_PPM
            + (get_annual_pmi_rate(pct) * (100 - pct)) \div (100 * MONTHS_IN_YEAR)
            + calculate_monthly_mortgage_rate(row.annual_mortgage_rate)
            + (100 * row.annual_property_tax_rate) \div MONTHS_IN_YEAR
            + MulDiv(row.monthly_homeowners_insurance, 1000000, row.purchase_price)
        net_rent == row.monthly_restimate * (100 - VACANCY_RATE_PCT) - 100 * row.monthly_hoa
    IN MulDiv(net_rent, 10000, monthly_cost_rate)

Abs(x) == IF x < 0 THEN 0 - x ELSE x

\* a / b in 1/10000 for two amounts in cents (b is taken in whole dollars)
Ratio(a, b) == (100 * a) \div (b \div 100)

\* line 220 with the vacancy rate taken for the occupancy rate
net_monthly_rental_income_vacant(row, monthly_costs) ==
    row.monthly_restimate * VACANCY_RATE_PCT - monthly_costs
    - MulDiv(row.purchase_price, MONTHLY_MAINTENANCE_RATE_PPM, 10000)

\* line 220: the rent net of vacancy, monthly costs and maintenance, in cents
net_monthly_rental_income(row, monthly_costs) ==
    row.monthly_restimate * (100 - VACANCY_RATE_PCT) - monthly_costs
    - MulDiv(row.purchase_price, MONTHLY_MAINTENANCE_RATE_PPM, 10000)

\* the mask of line 227 read as the column description reads it: the
\* breakeven price is less than 80 % of the listed price
is_breakeven_price_offending_below(purchase_price, breakeven_purchase_price) ==
    5 * breakeven_purchase_price < 4 * purchase_price

\* np.abs(price - breakeven) > 0.2 * price
is_breakeven_price_offending(purchase_price, breakeven_purchase_price) ==
    5 * Abs(purchase_price - breakeven_purchase_price) > purchase_price

\* the python type of a cell of the is_breakeven_price_offending column, which
\* np.where(mask, "True", "False") fills with strings
CellType(v) == IF v \in {"True", "False"} THEN "str" ELSE "bool"

\* the annual income of the adjusted columns with the vacancy allowance and
\* the maintenance taken off once more
adjusted_annual_income_net(row, monthly_rental_income) ==
    MONTHS_IN_YEAR * (monthly_rental_income - row.monthly_restimate * VACANCY_RATE_PCT
                      - MulDiv(row.purchase_price, MONTHLY_MAINTENANCE_RATE_PPM, 10000))

\* lines 235, 236 and 238: the numerator of the adjusted columns
adjusted_annual_income(row, monthly_rental_income) ==
    MONTHS_IN_YEAR * monthly_rental_income

\* the metrics row of one property; money in cents, ratios in 1/10000
MetricsRow(row, pct) ==
    LET c == calculate_monthly_costs(row, pct)
        monthly_rental_income == net_monthly_rental_income(row, c.monthly_costs)
        breakeven_purchase_price == purchase_price_from_cash_flow_percentage(row, pct)
        offending == is_breakeven_price_offending(row.purchase_price, breakeven_purchase_price)
        annual == MONTHS_IN_YEAR * monthly_rental_income
        adjusted == adjusted_annual_income(row, monthly_rental_income)
    IN [ zpid                         |-> row.zpid,
         monthly_rental_income        |-> monthly_rental_income,
         breakeven_price              |-> breakeven_purchase_price,
         is_breakeven_price_offending |-> IF offending THEN "True" ELSE "False",
         CoC_no_prepaids              |-> Ratio(annual, c.cash_invested),
         CoC                          |-> Ratio(annual, c.cash_invested - c.prepaid_costs),
         adj_CoC_no_prepaids          |-> Ratio(adjusted, c.cash_invested),
         adj_CoC                      |-> Ratio(adjusted, c.cash_invested - c.prepaid_costs),
         cap_rate                     |-> (100 * annual) \div row.purchase_price,
         adj_cap_rate                 |-> (100 * adjusted) \div row.purchase_price ]

\* one metrics row per row of df, in the order and under the index of df
calculate_dynamic_metrics(df, pct) == [i \in 1..Len(df) |-> MetricsRow(df[i], pct)]

----------------------------------------------------------------------------
(* Data frames are sequences of rows; a row is a record keyed by column.   *)

Index(df) == [i \in 1..Len(df) |-> df[i].zpid]

IndexSet(df) == {df[i].zpid : i \in 1..Len(df)}

\* the columns of the static catalog
StaticColumns ==
    {"zpid", "purchase_price", "home_type", "year_built", "bedrooms", "bathrooms",
     "zip_code", "city", "street_address", "is_waterfront", "monthly_restimate",
     "annual_property_tax_rate", "annual_mortgage_rate",
     "monthly_homeowners_insurance", "monthly_hoa"}

\* str.title() on the city names in use
Title(city) ==
    CASE city = "miami" -> "Miami"
      [] city = "MIAMI" -> "Miami"
      [] city = "tampa" -> "Tampa"
      [] OTHER -> city

Raised(kind) == [err |-> kind, df |-> << >>]

Returned(df) == [err |-> "none", df |-> df]

\* properties_df.loc[filter_by_ids] with a non-empty set of labels
LocBySet(df, ids) ==
    IF setIndexer = "TypeError" THEN Raised("TypeError")
    ELSE IF ~(ids \subseteq IndexSet(df)) THEN Raised("KeyError")
    ELSE LET order == Ascending(ids)
             RowOf(z) == df[CHOOSE i \in 1..Len(df) : df[i].zpid = z]
         IN Returned([k \in 1..Len(order) |-> RowOf(order[k])])

\* lines 221-223: an empty (falsy) id set restricts nothing
RestrictByIds(df, filter_by_ids) ==
    IF filter_by_ids # {} THEN LocBySet(df, filter_by_ids) ELSE Returned(df)

\* lines 226-245: the house options, each applied only when truthy
HouseOptions(df, req) ==
    LET Keep(row) ==
            /\ (req.home_type # "ANY" => row.home_type = req.home_type)
            /\ (req.min_year_built # 0 => row.year_built >= req.min_year_built)
            /\ (req.max_year_built # 0 => row.year_built <= req.max_year_built)
            /\ (req.min_price # 0 => row.purchase_price >= req.min_price)
            /\ (req.max_price # 0 => row.purchase_price <= req.max_price)
            /\ (req.min_bedrooms # 0 => row.bedrooms >= req.min_bedrooms)
            /\ (req.max_bedrooms # 0 => row.bedrooms <= req.max_bedrooms)
            /\ (req.min_bathrooms # 0 => row.bathrooms >= req.min_bathrooms)
            /\ (req.max_bathrooms # 0 => row.bathrooms <= req.max_bathrooms)
            /\ (req.is_waterfront => row.is_waterfront = "True")
    IN SelectSeq(df, Keep)

\* lines 248-251: region lookup (a KeyError for a region that is no key) and city
LocationOptions(df, req) ==
    LET InRegion(row) == row.zip_code \in REGION_TO_ZIP_CODE(req.region)
        InCity(row) == row.city = Title(req.city)
    IN IF req.region # "ANY_AREA" /\ req.region \notin Regions THEN Raised("KeyError")
       ELSE LET byRegion == IF req.region # "ANY_AREA" THEN SelectSeq(df, InRegion) ELSE df
            IN Returned(IF req.city # Missing THEN SelectSeq(byRegion, InCity) ELSE byRegion)

\* lines 254-255: the cashflow filter reads a column of the frame it is given
AdvancedOptions(df, columns, req) ==
    IF ~req.is_cashflowing THEN Returned(df)
    ELSE IF "monthly_rental_income" \notin columns THEN Raised("KeyError")
    ELSE LET Cashflowing(row) == row.monthly_rental_income >= 0
         IN Returned(SelectSeq(df, Cashflowing))

create_filtered_properties_from_static_attributes(req, filter_by_ids) ==
    LET byIds == RestrictByIds(catalog, filter_by_ids)
    IN IF byIds.err # "none" THEN byIds
       ELSE LET located == LocationOptions(HouseOptions(byIds.df, req), req)
            IN IF located.err # "none" THEN located
               ELSE AdvancedOptions(located.df, StaticColumns, req)

\* lines 107-109: the address filter
AddressFilter(df, req) ==
    LET Matches(row) == StrContains(row.street_address, req.property_address)
    IN IF req.property_address # << >> THEN SelectSeq(df, Matches) ELSE df

----------------------------------------------------------------------------
(* get_properties_from_attributes (app_util.py 102-148).                   *)

\* the parameters calculate_dynamic_metrics declares, in order (line 217)
calculate_dynamic_metrics_params == <<"df", "down_payment_percentage">>

\* the call at app_util.py line 116: two positional arguments, one keyword
MetricsCallPositional == 2

MetricsCallKeywords == {"override_annual_mortgage_rate"}

\* the parameters calculate_series_metrics_df declares, in order (line 243)
calculate_series_metrics_df_params ==
    <<"down_payment_percentage", "zestimate_histories_df", "index_df", "rf_df", "zpids",
      "simplified", "logger", "ignore_nonlinear", "var_confidence_level">>

\* the call at app_util.py lines 133-141: five positional arguments, two keywords
SeriesCallPositional == 5

SeriesCallKeywords == {"override_annual_mortgage_rate", "zpids"}

\* python binds a call iff every keyword names a parameter not already bound
Binds(params, positional, keywords) ==
    /\ positional <= Len(params)
    /\ keywords \subseteq {params[i] : i \in (positional + 1)..Len(params)}

\* float(get('down_payment_percentage', 20) or 20), in percent
DownPaymentOf(req) ==
    IF req.down_payment_percentage = 0 THEN DEFAULT_DOWN_PAYMENT
    ELSE req.down_payment_percentage

\* DataFrame.round(2) on a metrics row: ratios to hundredths, cents unchanged
Round2(m) ==
    [m EXCEPT !.CoC_no_prepaids = RoundDiv(@, 100),
              !.CoC = RoundDiv(@, 100),
              !.adj_CoC_no_prepaids = RoundDiv(@, 100),
              !.adj_CoC = RoundDiv(@, 100),
              !.cap_rate = RoundDiv(@, 100),
              !.adj_cap_rate = RoundDiv(@, 100)]

\* pd.concat([df, metrics.round(2)], axis=1)
ConcatMetrics(df, metrics) == [i \in 1..Len(df) |-> df[i] @@ Round2(metrics[i])]

FRONTEND_COL_NAME_TO_BACKEND_COL_NAME(name) ==
    CASE name = "CoC" -> "CoC"
      [] name = "Price" -> "purchase_price"
      [] name = "Bedrooms" -> "bedrooms"
      [] name = "Cap Rate" -> "cap_rate"
      [] name = "Rental Income" -> "monthly_rental_income"

SortColumns == {"CoC", "Price", "Bedrooms", "Cap Rate", "Rental Income"}

SortByOf(req) == IF req.sortBy = Missing THEN "CoC" ELSE req.sortBy

AscendingOf(req) == (IF req.sortOrder = Missing THEN "asc" ELSE req.sortOrder) = "asc"

\* DataFrame.sort_values(by=col, ascending=asc) with the default kind, quicksort:
\* rows are ordered by the key; the order of rows with equal keys is whatever
\* the installed sort leaves, here either the input order or its reverse
sort_values(df, col, asc) ==
    LET n == Len(df)
        Before(i, j) ==
            \/ (asc /\ df[i][col] < df[j][col])
            \/ (~asc /\ df[i][col] > df[j][col])
            \/ (df[i][col] = df[j][col]
                /\ IF quicksortTies = "input order" THEN i < j ELSE i > j)
        Rank(i) == 1 + Cardinality({j \in 1..n : Before(j, i)})
    IN [k \in 1..n |-> df[CHOOSE i \in 1..n : Rank(i) = k]]

\* lines 127-129
Paginate(df, page, properties_per_page) ==
    IF properties_per_page # -1
    THEN Slice(df, (page - 1) * properties_per_page, page * properties_per_page)
    ELSE df

Failed(stage, kind, filtered, calc_arg) ==
    [err |-> kind, stage |-> stage, filtered |-> filtered, calc_arg |-> calc_arg,
     df |-> << >>, num |-> 0]

get_properties_from_attributes(req, page, properties_per_page, calculate_series_metrics, filter_by_ids) ==
    LET static == create_filtered_properties_from_static_attributes(req, filter_by_ids)
    IN IF static.err # "none" THEN Failed("static filter", static.err, << >>, << >>)
       ELSE
       LET filtered == AddressFilter(static.df, req)
           pct == DownPaymentOf(req)
       IN IF ~Binds(calculate_dynamic_metrics_params, MetricsCallPositional,
                   MetricsCallKeywords)
          THEN Failed("dynamic metrics", "TypeError", Index(filtered), Index(filtered))
          ELSE
          LET full == ConcatMetrics(filtered, calculate_dynamic_metrics(filtered, pct))
              sorted == sort_values(full, FRONTEND_COL_NAME_TO_BACKEND_COL_NAME(SortByOf(req)),
                                    AscendingOf(req))
              paged == Paginate(sorted, page, properties_per_page)
          IN IF calculate_series_metrics
                /\ ~Binds(calculate_series_metrics_df_params, SeriesCallPositional,
                          SeriesCallKeywords)
             THEN Failed("series metrics", "TypeError", Index(filtered), Index(filtered))
             ELSE [err |-> "none", stage |-> "done", filtered |-> Index(filtered),
                   calc_arg |-> Index(filtered), df |-> paged, num |-> Len(sorted)]

----------------------------------------------------------------------------
(* get_properties_response_from_attributes (app_util.py 151-181) and the   *)
(* explore route (app.py 203-223).                                         *)

\* int(get('current_page', 1)) or 1
PageOf(req) == IF req.current_page = 0 THEN 1 ELSE req.current_page

\* int(get('num_properties_per_page', 1)) or 1
PerPageOf(req) == IF req.num_properties_per_page = 0 THEN 1 ELSE req.num_properties_per_page

\* lines 155-181: the response made of the page and the count
properties_response(got, properties_per_page, saved_ids) ==
    LET withSave == [i \in 1..Len(got.df) |->
                        got.df[i] @@ [Save |-> got.df[i].zpid \in saved_ids]]
    IN IF got.err # "none"
       THEN [status |-> "error", err |-> got.err, stage |-> got.stage,
             filtered |-> got.filtered, calc_arg |-> got.calc_arg,
             properties |-> << >>, properties_json |-> "none",
             total_properties |-> 0, total_pages |-> 0]
       ELSE [status |-> "ok", err |-> "none", stage |-> "done",
             filtered |-> got.filtered, calc_arg |-> got.calc_arg,
             properties |-> IF got.num # 0 THEN withSave ELSE << >>,
             properties_json |-> IF got.num # 0 THEN "list" ELSE "object",
             total_properties |-> got.num,
             total_pages |-> Ceil(got.num, properties_per_page)]

get_properties_response_from_attributes(req, filter_by_ids, saved_ids) ==
    properties_response(
        get_properties_from_attributes(req, PageOf(req), PerPageOf(req),
                                       req.is_advanced_search, filter_by_ids),
        PerPageOf(req), saved_ids)

\* lines 213-215 of app.py
SavedIdsOf(user) == IF user = "user" THEN saved ELSE {}

FilterByIdsOf(req, user) == IF req.is_saved THEN SavedIdsOf(user) ELSE {}

explore(req, user) ==
    get_properties_response_from_attributes(req, FilterByIdsOf(req, user), SavedIdsOf(user))
        @@ [filter_by_ids |-> FilterByIdsOf(req, user), saved_ids |-> SavedIdsOf(user)]

----------------------------------------------------------------------------
(* Request parameter mappings.  A numeric field is 0, a string field       *)
(* Missing and a text field the empty sequence when the mapping has no     *)
(* such key or holds None or ''.                                           *)

BaseRequest ==
    [ home_type |-> "ANY", region |-> "ANY_AREA", city |-> Missing,
      min_price |-> 0, max_price |-> 0,
      min_year_built |-> 0, max_year_built |-> 0,
      min_bedrooms |-> 0, max_bedrooms |-> 0,
      min_bathrooms |-> 0, max_bathrooms |-> 0,
      is_waterfront |-> FALSE, is_cashflowing |-> FALSE,
      property_address |-> << >>,
      down_payment_percentage |-> 0, override_annual_mortgage_rate |-> 0,
      sortBy |-> Missing, sortOrder |-> Missing,
      current_page |-> 0, num_properties_per_page |-> 0,
      is_saved |-> FALSE, is_advanced_search |-> FALSE ]

DownPayments == {3, 5, 10, 20}

FilterRequests ==
    { [BaseRequest EXCEPT !.home_type = ht, !.region = rg, !.min_price = lo,
                          !.max_price = hi, !.is_cashflowing = cf, !.is_saved = sv,
                          !.num_properties_per_page = MaxPerPage] :
        ht \in {Missing, "ANY", "CONDO"}, rg \in {Missing, "ANY_AREA", "MIAMI_AREA"},
        lo \in {0, 250000}, hi \in {0, 300000}, cf \in BOOLEAN, sv \in BOOLEAN }

RangeRequests ==
    { [BaseRequest EXCEPT !.min_year_built = y0, !.max_year_built = y1,
                          !.min_bedrooms = b0, !.max_bedrooms = b1,
                          !.min_bathrooms = a0, !.max_bathrooms = a1,
                          !.property_address = ad,
                          !.num_properties_per_page = MaxPerPage] :
        y0 \in {0, 2000}, y1 \in {0, 2010}, b0 \in {0, 3}, b1 \in {0, 2},
        a0 \in {0, 2}, a1 \in {0, 1}, ad \in {<< >>, <<"o", "A">>} }

PlaceRequests ==
    { [BaseRequest EXCEPT !.is_waterfront = wf, !.city = ct, !.property_address = ad,
                          !.region = rg, !.is_saved = sv,
                          !.num_properties_per_page = MaxPerPage] :
        wf \in BOOLEAN, ct \in {Missing, "miami"}, ad \in {<< >>, <<"E", "L">>},
        rg \in {"ANY_AREA", "TAMPA_AREA"}, sv \in BOOLEAN }

PageRequests ==
    { [BaseRequest EXCEPT !.sortBy = sb, !.sortOrder = so, !.current_page = pg,
                          !.num_properties_per_page = pp, !.min_price = lo] :
        sb \in {Missing, "Price", "Bedrooms", "Cap Rate"}, so \in {Missing, "asc", "desc"},
        pg \in 0..MaxPage, pp \in 0..MaxPerPage, lo \in {0, 250000, 500000} }

FinancingRequests ==
    { [BaseRequest EXCEPT !.down_payment_percentage = dp,
                          !.override_annual_mortgage_rate = ov,
                          !.is_cashflowing = cf, !.is_advanced_search = adv,
                          !.num_properties_per_page = MaxPerPage] :
        dp \in {0} \cup DownPayments, ov \in {0, 650}, cf \in BOOLEAN, adv \in BOOLEAN }

\* the mapping {home_type: "ANY", min_price: 250000}
ScenarioRequest == [BaseRequest EXCEPT !.region = Missing, !.min_price = 250000]

Requests ==
    FilterRequests \cup RangeRequests \cup PlaceRequests \cup PageRequests
    \cup FinancingRequests \cup {ScenarioRequest}

Users == {"user", "anonymous"}

----------------------------------------------------------------------------
(* The time-series cache (dynamic_re_metrics_processor.py 59-129).  A      *)
(* cache file is the empty sequence when the path does not exist, else a   *)
(* sequence of one record: the age of its modification time in half days   *)
(* and what it holds ("rows" for a cleaned series, "empty" for a header    *)
(* with no row).                                                           *)

INDEX_TICKERS == <<"^GSPC">>

RF_TICKER == "^IRX"

\* the order in which initialize_data visits the tickers (lines 115-121)
TickerOrder == INDEX_TICKERS \o <<RF_TICKER>>

Tickers == Range(TickerOrder)

NoFile == << >>

File(age, data) == <<[age |-> age, data |-> data]>>

\* what yf.download does: it returns the series, or returns a frame with no
\* row, or raises (line 81, and line 82 on what was returned)
Downloads == {"data", "nothing", "error"}

\* the test of line 95 with <= for <
is_data_fresh_within(file) ==
    file # NoFile /\ file[1].age <= HalfDaysPerDay * MAX_DATA_AGE_DAYS

\* lines 91-95: the path exists and its age is less than MAX_DATA_AGE_DAYS
is_data_fresh(file) ==
    file # NoFile /\ file[1].age < HalfDaysPerDay * MAX_DATA_AGE_DAYS

NoData == "none"

\* lines 97-102: the file after the call, whether a download was made,
\* whether the call raised, and the frame it returned
update_data_if_needed(file, download) ==
    IF is_data_fresh(file)
    THEN [file |-> file, fetched |-> FALSE, raised |-> FALSE, data |-> file[1].data]
    ELSE IF download = "error"
    THEN [file |-> file, fetched |-> TRUE, raised |-> TRUE, data |-> NoData]
    ELSE LET data == IF download = "data" THEN "rows" ELSE "empty"
         IN [file |-> File(0, data), fetched |-> TRUE, raised |-> FALSE, data |-> data]

\* lines 113-124 from the k-th ticker on; a call that raises ends the loop
RECURSIVE initialize_from(_, _, _, _)
initialize_from(k, fs, calls, downloads) ==
    IF k > Len(TickerOrder) THEN [files |-> fs, calls |-> calls, raised |-> FALSE]
    ELSE LET ticker == TickerOrder[k]
             r == update_data_if_needed(fs[ticker], downloads[ticker])
             fs2 == [fs EXCEPT ![ticker] = r.file]
             calls2 == [t \in DOMAIN calls \cup {ticker} |->
                          IF t = ticker THEN r ELSE calls[t]]
         IN IF r.raised THEN [files |-> fs2, calls |-> calls2, raised |-> TRUE]
            ELSE initialize_from(k + 1, fs2, calls2, downloads)

initialize_data(fs, downloads) == initialize_from(1, fs, << >>, downloads)

\* INDEX_DATA_DICT and RF_DATA before line 129 has run
NotLoaded == << >>

\* the cache of a process that started a moment ago with the source up
FreshFiles == [t \in Tickers |-> File(0, "rows")]

LoadedSeries(fs) == <<[t \in Tickers |-> fs[t][1].data]>>

----------------------------------------------------------------------------
(* The state outside the pipeline as a started process holds it.           *)

BackendColumns == "backend"

Threads == 1..NumThreads

Idle == << >>

\* werkzeug's generate_password_hash and check_password_hash: a hash is
\* modelled by the password it was generated from, and matches no other
generate_password_hash(password) == <<"hash", password>>

check_password_hash(pwhash, password) == pwhash = <<"hash", password>>

\* the rows of app_database_util.users once seeded (lines 17-34)
SeededUsers ==
    { [email     |-> email,
       password  |-> generate_password_hash("pass"),
       confirmed |-> email = "test@gmail.com"] :
      email \in {"test@gmail.com", "unverified@gmail.com"} }

InitServices ==
    /\ labels = BackendColumns
    /\ threads = [t \in Threads |-> Idle]
    /\ files = FreshFiles
    /\ series = LoadedSeries(FreshFiles)
    /\ users = SeededUsers
    /\ mailbox = {}
    /\ tasks = << >>

----------------------------------------------------------------------------
(* The state machine.                                                      *)

\* the saved sets the user table may hold at start; 0 is the id of no catalog row
StoredSavedSets == {{}, {NumProperties}, {1, 2}, {0, 1}}

\* the month in which the process is started
StartMonths == {MONTHS_IN_YEAR}

\* the frames direct callers hand to the calculator: the catalog, a mask of
\* it, a single row, the empty frame
CallFrames ==
    LET PriceAtLeast(p) == SelectSeq(catalog, LAMBDA row : row.purchase_price >= p)
    IN {catalog, PriceAtLeast(250000), <<catalog[Len(catalog)]>>, << >>}

CallDownPayments == {5, 20}

\* the requests that run between two direct calls
InterleavedRequests ==
    { [BaseRequest EXCEPT !.down_payment_percentage = dp] : dp \in {0, 10} }

NoCall == << >>

Init ==
    /\ catalog = LoadCatalog
    /\ saved \in StoredSavedSets
    /\ request = << >>
    /\ run = << >>
    /\ nowMonth \in StartMonths
    /\ currentMonth = nowMonth
    /\ setIndexer \in {"select", "TypeError"}
    /\ quicksortTies \in {"input order", "reversed"}
    /\ lastCall = NoCall
    /\ remembered = NoCall
    /\ called = NoCall
    /\ InitServices

\* POST /api/explore: the whole handler
Explore(S) ==
    /\ request = << >>
    /\ \E req \in S, user \in Users :
        /\ request' = <<[params |-> req, user |-> user]>>
        /\ run' = <<explore(req, user)>>
    /\ UNCHANGED <<catalog, saved, currentMonth, nowMonth, setIndexer, quicksortTies,
                   lastCall, remembered, called, services>>

\* the response is sent and the request's frames are dropped
Finish ==
    /\ request # << >>
    /\ request' = << >>
    /\ run' = << >>
    /\ UNCHANGED <<catalog, saved, currentMonth, nowMonth, setIndexer, quicksortTies,
                   lastCall, remembered, called, services>>

ExploreAny == Explore(Requests)

Next == ExploreAny \/ Finish

Spec == Init /\ [][Next]_vars

\* a direct call calculate_dynamic_metrics(df, pct); one earlier call is kept,
\* with a note of whether a call with other arguments has come after it
CallCalculator ==
    \E df \in CallFrames, pct \in CallDownPayments, keep \in BOOLEAN :
        LET call == [df |-> Index(df), pct |-> pct, at |-> nowMonth,
                     out |-> calculate_dynamic_metrics(df, pct), between |-> FALSE]
            other == remembered # NoCall
                     /\ <<remembered[1].df, remembered[1].pct>> # <<call.df, call.pct>>
        IN /\ lastCall' = <<call>>
           /\ remembered' = IF keep THEN <<call>>
                             ELSE IF other THEN <<[remembered[1] EXCEPT !.between = TRUE]>>
                             ELSE remembered
           /\ UNCHANGED <<catalog, saved, request, run, currentMonth, nowMonth,
                          setIndexer, quicksortTies, called, services>>

\* the calendar month changes while the process keeps running
Tick ==
    /\ (nowMonth - currentMonth) % MONTHS_IN_YEAR < MaxTicks
    /\ nowMonth' = (nowMonth % MONTHS_IN_YEAR) + 1
    /\ UNCHANGED <<catalog, saved, request, run, currentMonth, setIndexer,
                   quicksortTies, lastCall, remembered, called, services>>

ExploreInterleaved == Explore(InterleavedRequests)

NextCalc == CallCalculator \/ Tick \/ ExploreInterleaved \/ Finish

\* the calculator reads neither the saved set nor the library behaviours:
\* its specification starts from one choice of them
InitCalc ==
    /\ Init
    /\ saved = {}
    /\ setIndexer = "select"
    /\ quicksortTies = "input order"

SpecCalc == InitCalc /\ [][NextCalc]_vars

----------------------------------------------------------------------------
(* Direct calls of the calculator's functions.                             *)

\* the variables a direct call leaves alone
others == <<catalog, saved, request, run, currentMonth, nowMonth, setIndexer,
            quicksortTies, lastCall, remembered, services>>

\* the down payments handed to direct calls, in whole percent
PmiInputs == (0..25) \cup {50, 100}

IsCall(fn) == called # NoCall /\ called[1].fn = fn

\* get_annual_pmi_rate(x); the call before it is kept for comparison
CallPmi ==
    \E x \in PmiInputs :
        /\ called = NoCall \/ IsCall("get_annual_pmi_rate")
        /\ called' = <<[fn |-> "get_annual_pmi_rate", x |-> x,
                        out |-> get_annual_pmi_rate(x),
                        prev |-> IF IsCall("get_annual_pmi_rate")
                                 THEN <<[x |-> called[1].x, out |-> called[1].out]>>
                                 ELSE << >>]>>
        /\ UNCHANGED others

\* the records handed to direct calls: the first catalog row with other
\* prices, rent estimates, rates and monthly charges
CallRow(price, rent, tax, rate, ins, hoa) ==
    [PropertyRow(1) EXCEPT !.purchase_price = price, !.monthly_restimate = rent,
                           !.annual_property_tax_rate = tax, !.annual_mortgage_rate = rate,
                           !.monthly_homeowners_insurance = ins, !.monthly_hoa = hoa]

CallPrices == {200000, 300000, 400000}

CallRows ==
    { CallRow(price, rent, tax, rate, ins, hoa) :
        price \in CallPrices, rent \in {100, 2500}, tax \in {0, 100},
        rate \in {0, 600, 700}, ins \in {0, 150}, hoa \in {0, 300} }

\* a record with no price at all
FreeRows == { CallRow(0, 0, tax, 600, ins, 0) : tax \in {0, 100}, ins \in {0, 150} }

\* down-payment fractions in (0, 1], in whole percent
CallFractions == {1, 3, 4, 5, 10, 19, 20, 50, 100}

\* calculate_monthly_costs(row, pct)
CallMonthlyCosts ==
    \E row \in CallRows \cup FreeRows, pct \in CallFractions :
        /\ called = NoCall
        /\ called' = <<[fn |-> "calculate_monthly_costs", row |-> row, pct |-> pct,
                        out |-> calculate_monthly_costs(row, pct)]>>
        /\ UNCHANGED others

\* three records that differ in nothing but the price
PriceLadder(row) ==
    [i \in 1..3 |-> [row EXCEPT !.zpid = i, !.purchase_price = 100000 * (i + 1)]]

\* the record listed at the price the breakeven model gives it
AtBreakeven(row, pct) ==
    [row EXCEPT !.purchase_price = purchase_price_from_cash_flow_percentage(row, pct)]

\* the frames handed to calculate_dynamic_metrics with down payment pct
MetricsFrames(pct) ==
    { PriceLadder(row) : row \in {r \in CallRows : r.purchase_price = 200000} }
    \cup { <<AtBreakeven(row, pct)>> :
              row \in {r \in CallRows : /\ r.annual_mortgage_rate > 0
                                        /\ r.monthly_homeowners_insurance = 0
                                        /\ r.monthly_restimate > r.monthly_hoa} }

\* calculate_dynamic_metrics(df, pct)
CallMetrics ==
    \E pct \in CallFractions :
        \E df \in MetricsFrames(pct) :
            /\ called = NoCall
            /\ called' = <<[fn |-> "calculate_dynamic_metrics", df |-> df, pct |-> pct,
                            out |-> calculate_dynamic_metrics(df, pct)]>>
            /\ UNCHANGED others

\* the caller is done with the result
Return ==
    /\ called # NoCall
    /\ called' = NoCall
    /\ UNCHANGED others

NextFn == CallPmi \/ CallMonthlyCosts \/ CallMetrics \/ Return

InitFn == InitCalc

SpecFn == InitFn /\ [][NextFn]_vars

----------------------------------------------------------------------------
(* calculate_series_metrics_df (dynamic_re_metrics_processor.py 243-427).  *)
(* A history is the aligned frame of one property after lines 271-300:     *)
(* one observation per date with its price return, the index return and    *)
(* the risk-free rate.  Returns are integers in units of 10 %; a return    *)
(* that pct_change leaves undefined is the empty sequence, a defined one   *)
(* a sequence of one number.  A metric cell is a reason string, or Number  *)
(* for a finite float, or NotANumber for a float nan.                      *)

metric_keys ==
    <<"Alpha", "Beta", "Sharpe Ratio", "Sortino Ratio", "Max Drawdown (%)",
      "Recovery Time (Days)", "Kendall Tau", "Spearman Rho", "Historical VaR">>

Number == "number"

NotANumber == "nan"

\* {key: reason for key in metric_keys}
AllCells(reason) == [key \in Range(metric_keys) |-> reason]

Observation(date, price_return, stock_return) ==
    [date |-> date, price_return |-> price_return, stock_return |-> stock_return,
     risk_free_rate |-> 0]

\* dropna(subset=['Price Returns', 'Stock Returns'])
dropna(history) ==
    SelectSeq(history, LAMBDA o : o.price_return # << >> /\ o.stock_return # << >>)

\* the columns of lines 319-320
ExcessPriceReturns(group) ==
    [i \in 1..Len(group) |-> group[i].price_return[1] - group[i].risk_free_rate]

ExcessStockReturns(group) ==
    [i \in 1..Len(group) |-> group[i].stock_return[1] - group[i].risk_free_rate]

RECURSIVE Sum(_)
Sum(xs) == IF xs = << >> THEN 0 ELSE Head(xs) + Sum(Tail(xs))

MinOf(xs) == CHOOSE v \in Range(xs) : \A w \in Range(xs) : v <= w

MaxOf(xs) == CHOOSE v \in Range(xs) : \A w \in Range(xs) : v >= w

\* np.std(xs) == 0 for a non-empty array
ZeroStd(xs) == \A i, j \in 1..Len(xs) : xs[i] = xs[j]

\* np.min(xs) != 0 and np.max(xs) / np.min(xs) > 10, a signed quotient
ExtremeRatio(xs) ==
    LET lo == MinOf(xs)
        hi == MaxOf(xs)
    IN lo # 0 /\ (IF lo > 0 THEN hi > 10 * lo ELSE hi < 10 * lo)

\* n * sum(x * y) - sum(x) * sum(y): n squared times the covariance
Spread(xs, ys) ==
    Len(xs) * Sum([i \in 1..Len(xs) |-> xs[i] * ys[i]]) - Sum(xs) * Sum(ys)

\* np.std(residuals) / np.std(price_returns) > 0.5 for the least-squares line
NonLinear(stock, price) ==
    3 * Spread(stock, stock) * Spread(price, price) > 4 * Spread(stock, price) * Spread(stock, price)

\* lines 345-365
AlphaBeta(stock, price) ==
    IF ExtremeRatio(stock) \/ ExtremeRatio(price) THEN "Extreme values detected"
    ELSE IF NonLinear(stock, price) THEN "Non-linear pattern detected"
    ELSE Number

\* lines 367-374
SharpeRatio(price) ==
    IF ~ZeroStd(price) THEN Number ELSE "Zero standard deviation in returns"

\* lines 376-382: the deviation of no value at all is nan, and nan != 0
SortinoRatio(price) ==
    LET downside == SelectSeq(price, LAMBDA x : x < 0)
    IN IF downside = << >> THEN NotANumber
       ELSE IF ~ZeroStd(downside) THEN Number
       ELSE "Zero downside deviation in returns"

RECURSIVE Power10(_)
Power10(n) == IF n = 0 THEN 1 ELSE 10 * Power10(n - 1)

\* the product of 10 + price return over the first k observations
RECURSIVE Growth(_, _)
Growth(group, k) ==
    IF k = 0 THEN 1 ELSE Growth(group, k - 1) * (10 + group[k].price_return[1])

\* (1 + Price Returns).cumprod() at position k, times 10 ^ Len(group)
CumulativeReturn(group, k) == Growth(group, k) * Power10(Len(group) - k)

\* cumulative_return.cummax() at position k
Peak(group, k) ==
    MaxOf([i \in 1..k |-> CumulativeReturn(group, i)])

\* the drawdown (cumulative_return - peak) / peak at position k is negative
BelowPeak(group, k) ==
    CumulativeReturn(group, k) < Peak(group, k) /\ Peak(group, k) > 0

\* drawdown at i is below drawdown at j; the peaks are not zero
DeeperDrawdown(group, i, j) ==
    LET fall_i == CumulativeReturn(group, i) - Peak(group, i)
        fall_j == CumulativeReturn(group, j) - Peak(group, j)
    IN IF Peak(group, i) * Peak(group, j) > 0
       THEN fall_i * Peak(group, j) < fall_j * Peak(group, i)
       ELSE fall_i * Peak(group, j) > fall_j * Peak(group, i)

\* drawdown.idxmin(): the first position of the least drawdown
trough_date(group) ==
    CHOOSE k \in 1..Len(group) :
        /\ \A j \in 1..Len(group) : ~DeeperDrawdown(group, j, k)
        /\ \A j \in 1..(k - 1) : DeeperDrawdown(group, k, j)

\* drawdown.min() == 0 (line 390): the first drawdown is zero, so the least
\* is zero when none is negative
no_drawdown(group) == \A k \in 1..Len(group) : ~BelowPeak(group, k)

\* round(abs(max_drawdown) * 100, 2) in hundredths of a percent (line 394)
max_drawdown_pct(group) ==
    LET t == trough_date(group)
    IN RoundDiv((Peak(group, t) - CumulativeReturn(group, t)) * 10000, Peak(group, t))

\* the positions from the trough on that reach peak[trough_date] (line 400)
recovery_dates(group) ==
    {k \in trough_date(group)..Len(group) :
        CumulativeReturn(group, k) >= Peak(group, trough_date(group))}

NoRecovery == 0 - 1

\* lines 397-403: the days from the trough to the first recovery date, or
\* NoRecovery for nan
recovery_time(group) ==
    IF recovery_dates(group) = {} THEN NoRecovery
    ELSE group[MinOf(Ascending(recovery_dates(group)))].date - group[trough_date(group)].date

\* lines 384-404: the cells Max Drawdown (%) and Recovery Time (Days)
Drawdown(group) ==
    IF no_drawdown(group)
    THEN [max_drawdown |-> "No drawdown detected", recovery |-> "No drawdown detected"]
    ELSE [max_drawdown |-> Number,
          recovery |-> IF recovery_time(group) # NoRecovery THEN Number
                       ELSE "Recovery not achieved"]

\* len(group) < 1, the test for an empty group
insufficient_data_points_empty(group) == Len(group) < 1

\* len(group) < 2 (line 330)
insufficient_data_points(group) == Len(group) < 2

\* the row of one property's group (lines 322-419)
calculate_series_metrics(group) ==
    IF insufficient_data_points(group) THEN AllCells("Insufficient data points")
    ELSE
    LET price == ExcessPriceReturns(group)
        stock == ExcessStockReturns(group)
    IN IF Len(price) < 2 \/ Len(stock) < 2
       THEN AllCells("Insufficient data after dropping NaNs")
       ELSE IF ZeroStd(stock) \/ ZeroStd(price)
       THEN AllCells("Insufficient variance in returns")
       ELSE
       LET drawdown == Drawdown(group)
       IN [key \in Range(metric_keys) |->
             CASE key \in {"Alpha", "Beta"} -> AlphaBeta(stock, price)
               [] key = "Sharpe Ratio" -> SharpeRatio(price)
               [] key = "Sortino Ratio" -> SortinoRatio(price)
               [] key = "Max Drawdown (%)" -> drawdown.max_drawdown
               [] key = "Recovery Time (Days)" -> drawdown.recovery
               [] OTHER -> Number]

\* the rows {zpid: {key: reason}} of a reasons dictionary, as frame rows
ReasonRows(ids, reason) ==
    [i \in 1..Cardinality(ids) |-> [zpid |-> Ascending(ids)[i], cells |-> AllCells(reason)]]

\* an early return that builds its frame from no dictionary at all
empty_history_result_bare(missing_zpids_reasons) == << >>

\* lines 267-269 and 281-283: the frame returned when no history is left
empty_history_result(missing_zpids_reasons) == missing_zpids_reasons

\* store maps the zpids that have a history to it; zpids is << >> for None
\* and a one-element sequence holding the requested set otherwise
calculate_series_metrics_df(store, zpids) ==
    LET provided_zpids_set == IF zpids # << >> THEN zpids[1] ELSE {}
        available_zpids_set == DOMAIN store
        missing_zpids == provided_zpids_set \ available_zpids_set
        missing_zpids_reasons == ReasonRows(missing_zpids, "Missing zestimate history")
        kept == IF zpids # << >> /\ Cardinality(zpids[1]) > 0
                THEN available_zpids_set \cap zpids[1]
                ELSE available_zpids_set
        with_rows == {z \in kept : store[z] # << >>}
        zpids_after_dropping_na == {z \in with_rows : dropna(store[z]) # << >>}
        filtered_out_due_to_nan == with_rows \ zpids_after_dropping_na
        filtered_out_zpids_reasons ==
            ReasonRows(filtered_out_due_to_nan, "Insufficient data after dropping NaNs")
        groups == Ascending(zpids_after_dropping_na)
        result_df == [i \in 1..Len(groups) |->
                        [zpid |-> groups[i],
                         cells |-> calculate_series_metrics(dropna(store[groups[i]]))]]
    IN IF with_rows = {} THEN empty_history_result(missing_zpids_reasons)
       ELSE IF zpids_after_dropping_na = {}
       THEN missing_zpids_reasons \o filtered_out_zpids_reasons
       ELSE result_df \o missing_zpids_reasons \o filtered_out_zpids_reasons

\* a history whose defined returns are the given (price, stock) pairs: the
\* first observation of a property has no price return
History(pairs) ==
    <<Observation(0, << >>, <<0>>)>>
    \o [i \in 1..Len(pairs) |-> Observation(i, <<pairs[i][1]>>, <<pairs[i][2]>>)]

Histories ==
    { History(pairs) : pairs \in
        { << >>,
          << <<1, 1>> >>,
          << <<1, 1>>, <<1, 2>> >>,
          << <<1, 1>>, <<2, 2>> >>,
          << <<-1, 1>>, <<2, 3>> >>,
          << <<-1, 2>>, <<-2, 1>>, <<3, 3>> >>,
          << <<1, 1>>, <<-2, 2>>, <<1, 4>> >>,
          << <<1, 1>>, <<12, 2>>, <<2, 1>> >>,
          << <<0, 1>>, <<-3, 5>>, <<2, 1>> >> } }

HistoryZpids == 1..2

Stores == { [z \in ids |-> h[z]] : ids \in SUBSET HistoryZpids, h \in [HistoryZpids -> Histories] }

RequestedZpids == { << >> } \cup { <<ids>> : ids \in SUBSET (1..3) }

\* calculate_series_metrics_df(..., zpids=zpids) over the store
CallSeries ==
    \E store \in Stores, zpids \in RequestedZpids :
        /\ called = NoCall
        /\ called' = <<[fn |-> "calculate_series_metrics_df", store |-> store,
                        zpids |-> zpids, out |-> calculate_series_metrics_df(store, zpids)]>>
        /\ UNCHANGED others

NextSeries == CallSeries \/ Return

SpecSeries == InitCalc /\ [][NextSeries]_vars

\* the date of the k-th row of a group, in days
DateOf(k) == (k * (k + 1)) \div 2

\* the rows of one property after line 320, from its returns
Group(price_returns, stock_returns) ==
    [k \in 1..Len(price_returns) |->
        Observation(DateOf(k), <<price_returns[k]>>, <<stock_returns[k]>>)]

\* price returns in units of 10 %; a return below -100 % is what
\* Equity.pct_change() gives when the equity of line 295 changes sign
PriceReturnValues == {-40, -5, -1, 1, 2, 12}

StockReturns(n) ==
    IF n = 2 THEN {<<1, 2>>, <<1, 12>>, <<-1, 2>>}
    ELSE {<<1, 2, 3>>, <<1, 12, 2>>, <<-1, 2, 12>>}

Groups ==
    { Group(ps, ss) : ps \in [1..2 -> PriceReturnValues], ss \in StockReturns(2) }
    \cup { Group(ps, ss) : ps \in [1..3 -> PriceReturnValues], ss \in StockReturns(3) }
    \cup { Group(ps, <<1, 2, 3, 4>>) :
              ps \in {<<1, -5, 2, 12>>, <<1, -1, -1, 12>>, <<1, -5, 1, 1>>, <<2, -1, 2, -5>>} }

\* calculate_series_metrics(group) on the group of one property: the cells
\* and the numbers behind the two drawdown cells
CallGroup ==
    \E group \in Groups :
        /\ called = NoCall
        /\ called' = <<[fn |-> "calculate_series_metrics", group |-> group,
                        out |-> calculate_series_metrics(group),
                        max_drawdown |-> IF no_drawdown(group) THEN 0
                                         ELSE max_drawdown_pct(group),
                        recovery_time |-> IF no_drawdown(group) THEN NoRecovery
                                          ELSE recovery_time(group)]>>
        /\ UNCHANGED others

NextGroup == CallGroup \/ Return

SpecGroup == InitCalc /\ [][NextGroup]_vars

----------------------------------------------------------------------------
(* Saving a property: POST /api/toggle-save (app.py 225-239).              *)

\* lines 231-237 on the saved set of the loaded user object: the set after
\* the in-place remove or add, and the flag of the response
toggle_save(user_saved, property_id) ==
    IF property_id \in user_saved
    THEN [user_saved |-> user_saved \ {property_id}, saved |-> FALSE]
    ELSE [user_saved |-> user_saved \cup {property_id}, saved |-> TRUE]

\* the stored column once the request's session is removed: the session's
\* value when the handler committed it, the row as it was otherwise
stored_after_request(stored, in_session, committed) ==
    IF committed THEN in_session ELSE stored

\* the explore requests a user sends after saving
SaveRequests ==
    { [BaseRequest EXCEPT !.is_saved = sv] : sv \in BOOLEAN }

\* POST /api/toggle-save by the authenticated user: the whole handler, which
\* returns at line 238 without db.session.commit(); the previous toggle is
\* kept for comparison
ToggleSave ==
    /\ request = << >>
    /\ called = NoCall \/ IsCall("toggle_save")
    /\ \E property_id \in 0..NumProperties :
        LET toggled == toggle_save(saved, property_id)
        IN /\ called' = <<[fn          |-> "toggle_save",
                            property_id |-> property_id,
                            before      |-> saved,
                            user_saved  |-> toggled.user_saved,
                            saved       |-> toggled.saved,
                            prev        |-> IF IsCall("toggle_save")
                                            THEN <<[property_id |-> called[1].property_id,
                                                    before      |-> called[1].before]>>
                                            ELSE << >>]>>
           /\ saved' = stored_after_request(saved, toggled.user_saved, FALSE)
    /\ UNCHANGED <<catalog, request, run, currentMonth, nowMonth, setIndexer,
                   quicksortTies, lastCall, remembered, services>>

ExploreAfterSave == Explore(SaveRequests)

NextSave == ToggleSave \/ ExploreAfterSave \/ Finish \/ Return

SpecSave == Init /\ [][NextSave]_vars

----------------------------------------------------------------------------
(* Accounts: tokens (app.py 137-149, 179-192), login (399-435), register   *)
(* (483-509), email verification (527-537) and the request of a password   *)
(* reset (539-550).                                                        *)

Emails == {"test@gmail.com", "unverified@gmail.com", "new@gmail.com"}

Passwords == {"pass", "guess"}

\* token ages are counted in steps of TokenTick seconds
TokenTick == 1800

VERIFICATION_SALT == "email-verification-salt"

VERIFICATION_EXPIRATION == 3600

RESET_SALT == "password-reset-salt"

RESET_EXPIRATION == 1800

None == "None"

\* serializer.dumps(data, salt): the expiration is not part of the token
generate_token(data, salt, expiration) ==
    [data |-> data, salt |-> salt, age |-> 0, signed |-> TRUE]

\* serializer.loads(token, salt, max_age): BadSignature for a token the key
\* and salt did not sign, SignatureExpired for an age above max_age
verify_token(token, salt, expiration) ==
    IF ~token.signed \/ token.salt # salt THEN None
    ELSE IF token.age * TokenTick > expiration THEN None
    ELSE token.data

\* the tokens a client can make up without the secret key
Forged ==
    { [data |-> e, salt |-> VERIFICATION_SALT, age |-> 0, signed |-> FALSE] : e \in Emails }

\* User.query.filter_by(email=user_email): the matching rows
load_user(table, user_email) == {row \in table : row.email = user_email}

maybe_load_user(table, user_email) ==
    IF user_email \in {"anonymous", None} THEN {} ELSE load_user(table, user_email)

\* .first() of a query
first(rows) == CHOOSE row \in rows : TRUE

\* login without the check of line 416
start_authenticated_session_unconfirmed(table, user_email, user_password) ==
    LET user == load_user(table, user_email)
    IN IF user = {} \/ ~check_password_hash(first(user).password, user_password)
       THEN "Invalid username or password."
       ELSE "Logging in!"

\* lines 411-435: the flash message of the response; tokens are issued with
\* 'Logging in!' only
start_authenticated_session(table, user_email, user_password) ==
    LET user == load_user(table, user_email)
    IN IF user = {} \/ ~check_password_hash(first(user).password, user_password)
       THEN "Invalid username or password."
       ELSE IF ~first(user).confirmed
       THEN "Please verify your email."
       ELSE "Logging in!"

\* a queued send_async_email task: send_async_email.delay(email), line 176
Task(recipient) ==
    [recipient |-> recipient, retries |-> 0, state |-> "queued", attempts |-> 0, sent |-> 0]

\* the variables the account routes leave alone
listing == <<catalog, saved, request, run, currentMonth, nowMonth, setIndexer,
             quicksortTies, lastCall, remembered, labels, files, series>>

\* POST /api/start-auth-session: the whole handler
Login ==
    /\ called = NoCall
    /\ \E user_email \in Emails, user_password \in Passwords :
        LET response == start_authenticated_session(users, user_email, user_password)
        IN called' = <<[fn            |-> "start_authenticated_session",
                        user_email    |-> user_email,
                        user_password |-> user_password,
                        response      |-> response,
                        tokens        |-> response = "Logging in!"]>>
    /\ UNCHANGED <<listing, threads, users, mailbox, tasks>>

\* POST /api/register for an email that line 490 finds registered
RegisterRefused ==
    /\ called = NoCall
    /\ \E user_email \in Emails :
        /\ load_user(users, user_email) # {}
        /\ called' = <<[fn |-> "register", user_email |-> user_email,
                        response |-> "Email already registered."]>>
    /\ UNCHANGED <<listing, threads, users, mailbox, tasks>>

\* POST /api/register, line 490: the email is not registered yet
RegisterChecked ==
    \E t \in Threads, user_email \in Emails, password \in Passwords :
        /\ threads[t] = Idle
        /\ load_user(users, user_email) = {}
        /\ threads' = [threads EXCEPT ![t] =
                          <<[fn |-> "register", stage |-> "checked",
                             user_email |-> user_email, password |-> password]>>]
        /\ UNCHANGED <<listing, called, users, mailbox, tasks>>

\* POST /api/register, lines 494-509: the insert, which the unique email
\* column (app_database_util.py 38) refuses for an email committed meanwhile,
\* and the verification email
RegisterCommit ==
    /\ called = NoCall
    /\ \E t \in Threads :
        /\ threads[t] # Idle
        /\ threads[t][1].fn = "register"
        /\ LET user_email == threads[t][1].user_email
               new_user == [email     |-> user_email,
                            password  |-> generate_password_hash(threads[t][1].password),
                            confirmed |-> FALSE]
           IN IF load_user(users, user_email) # {}
              THEN /\ called' = <<[fn |-> "register", user_email |-> user_email,
                                    response |-> "IntegrityError"]>>
                   /\ UNCHANGED <<users, mailbox, tasks>>
              ELSE /\ users' = users \cup {new_user}
                   /\ mailbox' = mailbox \cup
                          {generate_token(user_email, VERIFICATION_SALT, VERIFICATION_EXPIRATION)}
                   /\ tasks' = Append(tasks, Task(user_email))
                   /\ called' = <<[fn |-> "register", user_email |-> user_email,
                                    response |-> "Please confirm your email address."]>>
        /\ threads' = [threads EXCEPT ![t] = Idle]
    /\ UNCHANGED listing

\* POST /api/email/verify/<token>: the whole handler, for a mailed token or
\* a made-up one
EmailVerification ==
    /\ called = NoCall
    /\ \E token \in mailbox \cup Forged :
        LET user_email == verify_token(token, VERIFICATION_SALT, VERIFICATION_EXPIRATION)
            user_obj == maybe_load_user(users, user_email)
        IN IF user_obj # {}
           THEN /\ users' = (users \ {first(user_obj)})
                                \cup {[first(user_obj) EXCEPT !.confirmed = TRUE]}
                /\ called' = <<[fn |-> "email_verification", token |-> token,
                                 response |-> "Email confirmed."]>>
           ELSE /\ users' = users
                /\ called' = <<[fn |-> "email_verification", token |-> token,
                                 response |-> "Unable to locate user"]>>
    /\ UNCHANGED <<listing, threads, mailbox, tasks>>

\* POST /api/password/request-new: the whole handler; the reset link goes
\* out for a registered email only
ResetPassword ==
    /\ called = NoCall
    /\ Len(tasks) < MaxTasks
    /\ \E user_email \in Emails :
        IF maybe_load_user(users, user_email) # {}
        THEN /\ mailbox' = mailbox \cup {generate_token(user_email, RESET_SALT, RESET_EXPIRATION)}
             /\ tasks' = Append(tasks, Task(user_email))
             /\ called' = <<[fn |-> "reset_password", user_email |-> user_email,
                              response |-> "A password reset link has been sent to your email."]>>
        ELSE /\ UNCHANGED <<mailbox, tasks>>
             /\ called' = <<[fn |-> "reset_password", user_email |-> user_email,
                              response |-> "No account found with that email address."]>>
    /\ UNCHANGED <<listing, threads, users>>

\* TokenTick seconds pass
TokensAge ==
    /\ \E token \in mailbox : token.age < MaxTokenAge
    /\ mailbox' = { [token EXCEPT !.age = IF @ < MaxTokenAge THEN @ + 1 ELSE @] :
                      token \in mailbox }
    /\ UNCHANGED <<listing, called, threads, users, tasks>>

NextAccounts ==
    \/ Login \/ RegisterRefused \/ RegisterChecked \/ RegisterCommit
    \/ EmailVerification \/ ResetPassword \/ TokensAge \/ Return

SpecAccounts == InitCalc /\ [][NextAccounts]_vars

----------------------------------------------------------------------------
(* The email task: send_async_email (app.py 151-167) around                *)
(* EmailApp.send_email (email_service_util.py 67-84).                      *)

max_retries == 3

\* what one run of the task body meets: the message is accepted and the
\* connection closes cleanly; connecting, logging in or sendmail raises; or
\* sendmail returns and the exit of the with block raises, as smtplib does
\* when the server answers QUIT with a code other than 221
Outcomes == {"sent", "raised", "sent, exit raised"}

\* self.retry(exc=e): the task is queued again while request.retries is
\* below max_retries, and fails with the exception after that
retry(task) ==
    IF task.retries + 1 <= max_retries
    THEN [task EXCEPT !.retries = @ + 1, !.state = "retry"]
    ELSE [task EXCEPT !.state = "failed"]

\* one run of the task: lines 154-167
send_async_email(task, outcome) ==
    LET ran == [task EXCEPT !.attempts = @ + 1,
                            !.sent = IF outcome = "raised" THEN @ ELSE @ + 1]
    IN IF outcome = "sent"
       THEN [ran EXCEPT !.state = "succeeded"]
       ELSE retry(ran)

\* send_email_with_message: the task is queued (line 176)
QueueEmail ==
    /\ Len(tasks) < MaxTasks
    /\ \E recipient \in Emails : tasks' = Append(tasks, Task(recipient))
    /\ UNCHANGED <<listing, called, threads, users, mailbox>>

\* a worker runs a queued task
RunTask ==
    /\ \E i \in 1..Len(tasks), outcome \in Outcomes :
        /\ tasks[i].state \in {"queued", "retry"}
        /\ tasks' = [tasks EXCEPT ![i] = send_async_email(tasks[i], outcome)]
    /\ UNCHANGED <<listing, called, threads, users, mailbox>>

NextMail == QueueEmail \/ RunTask

SpecMail == InitCalc /\ [][NextMail]_vars

----------------------------------------------------------------------------
(* The callers that pass a mortgage rate of their own: the compare route   *)
(* (app.py 241-258, app_util.py 183-192) and explore with an override.     *)

\* the parameters calculate_monthly_costs declares, in order (line 190)
calculate_monthly_costs_params == <<"df", "down_payment_percentage">>

\* the call at app_util.py line 190: row, down payment and rate, all positional
CompareCallPositional == 3

\* the frame of both lists under the request's rate, with the three cost
\* columns of each row
compare_properties_response_from_attributes(attrs) ==
    LET listed == attrs.left_properties \o attrs.right_properties
        properties_df ==
            [i \in 1..Len(listed) |->
                [listed[i] EXCEPT !.annual_mortgage_rate = attrs.annual_interest_rate]]
    IN IF ~Binds(calculate_monthly_costs_params, CompareCallPositional, {})
       THEN Raised("TypeError")
       ELSE Returned([i \in 1..Len(properties_df) |->
                properties_df[i]
                @@ calculate_monthly_costs(properties_df[i],
                                           properties_df[i].down_payment_percentage)])

\* a listed property as the compare page sends it
CompareRow(list_id, price, pct) ==
    [list_id |-> list_id, down_payment_percentage |-> pct]
    @@ CallRow(price, 2500, 100, 600, 150, 0)

CompareRequests ==
    { [left_properties |-> <<CompareRow("left", lp, pct)>>, right_properties |-> right,
       annual_interest_rate |-> rate] :
        lp \in CallPrices, pct \in {5, 20}, rate \in {650, 700},
        right \in {<< >>, <<CompareRow("right", 400000, 20)>>} }

\* POST /api/compare up to the frame the aggregates are taken from
Compare ==
    \E attrs \in CompareRequests :
        /\ called = NoCall
        /\ called' = <<[fn |-> "compare", attrs |-> attrs,
                        out |-> compare_properties_response_from_attributes(attrs)]>>
        /\ UNCHANGED others

OverrideRequests ==
    { [BaseRequest EXCEPT !.override_annual_mortgage_rate = ov,
                          !.down_payment_percentage = dp] :
        ov \in {650, 700}, dp \in {0, 10} }

ExploreOverride == Explore(OverrideRequests)

NextCompare == Compare \/ Return \/ ExploreOverride \/ Finish

SpecCompare == InitCalc /\ [][NextCompare]_vars

----------------------------------------------------------------------------
(* The life of the process around the time-series cache: the module is     *)
(* imported (line 129 runs initialize_data), requests are served, the      *)
(* process is stopped, and the cache files age on disk meanwhile.          *)

\* what the cache directory may hold when the process is first started
StartFiles ==
    [Tickers -> {NoFile, File(0, "rows"), File(HalfDaysPerDay * MAX_DATA_AGE_DAYS, "rows")}]

\* the requests served while the series are held: one with and one
\* without the time-series metrics
ServedRequests ==
    { [BaseRequest EXCEPT !.is_advanced_search = adv] : adv \in BOOLEAN }

\* python imports dynamic_re_metrics_processor: line 129
Startup ==
    /\ series = NotLoaded
    /\ called = NoCall
    /\ request = << >>
    /\ \E downloads \in [Tickers -> Downloads] :
        LET r == initialize_data(files, downloads)
        IN /\ files' = r.files
           /\ series' = IF r.raised THEN NotLoaded ELSE LoadedSeries(r.files)
           /\ called' = <<[fn |-> "initialize_data", before |-> files,
                           downloads |-> downloads, calls |-> r.calls,
                           raised |-> r.raised]>>
    /\ UNCHANGED <<catalog, saved, request, run, currentMonth, nowMonth, setIndexer,
                   quicksortTies, lastCall, remembered, labels, threads, users,
                   mailbox, tasks>>

\* the process exits; its module globals go with it
Shutdown ==
    /\ series # NotLoaded
    /\ called = NoCall
    /\ request = << >>
    /\ series' = NotLoaded
    /\ UNCHANGED <<catalog, saved, request, run, currentMonth, nowMonth, setIndexer,
                   quicksortTies, lastCall, remembered, called, labels, threads,
                   files, users, mailbox, tasks>>

\* twelve hours pass: every cache file is twelve hours older
HalfDayPasses ==
    /\ called = NoCall
    /\ \E t \in Tickers : files[t] # NoFile /\ files[t][1].age < MaxFileAge
    /\ files' = [t \in Tickers |->
                    IF files[t] = NoFile THEN NoFile
                    ELSE File(Min(files[t][1].age + 1, MaxFileAge), files[t][1].data)]
    /\ UNCHANGED <<catalog, saved, request, run, currentMonth, nowMonth, setIndexer,
                   quicksortTies, lastCall, remembered, called, labels, threads,
                   series, users, mailbox, tasks>>

\* a request is served by the started process
ExploreServed == series # NotLoaded /\ called = NoCall /\ Explore(ServedRequests)

NextData == Startup \/ Shutdown \/ HalfDayPasses \/ ExploreServed \/ Finish \/ Return

\* before the first start: nothing is loaded, the directory holds what an
\* earlier run left
InitData ==
    /\ catalog = LoadCatalog
    /\ saved = {}
    /\ request = << >>
    /\ run = << >>
    /\ nowMonth \in StartMonths
    /\ currentMonth = nowMonth
    /\ setIndexer = "select"
    /\ quicksortTies = "input order"
    /\ lastCall = NoCall
    /\ remembered = NoCall
    /\ called = NoCall
    /\ labels = BackendColumns
    /\ threads = [t \in Threads |-> Idle]
    /\ files \in StartFiles
    /\ series = NotLoaded
    /\ users = SeededUsers
    /\ mailbox = {}
    /\ tasks = << >>

SpecData == InitData /\ [][NextData]_vars

----------------------------------------------------------------------------
(* Requests in flight on several worker threads (app.py 203-335).  A       *)
(* frame a handler holds is either an object of its own or the module      *)
(* global BACKEND_PROPERTIES_DF itself; an in-place operation on the       *)
(* latter changes the catalog for every thread.                            *)

FrontendColumns == "frontend"

NoFrame == << >>

\* the module global bound to a local name, as df = BACKEND_PROPERTIES_DF does
global_frame(df_labels, df_rows) == [shared |-> TRUE, labels |-> df_labels, rows |-> df_rows]

\* BACKEND_PROPERTIES_DF.copy() (app.py 287 and 324, app_util.py 221)
copy(df_labels, df_rows) == [shared |-> FALSE, labels |-> df_labels, rows |-> df_rows]

\* the labels and the rows a handler sees through its frame
FrameLabels(f) == IF f.shared THEN labels ELSE f.labels

FrameRows(f) == IF f.shared THEN catalog ELSE f.rows

\* lines 226-251 index the copy by backend column names
ReadsColumns(req) ==
    \/ req.home_type # "ANY"
    \/ req.region # "ANY_AREA"
    \/ req.city # Missing
    \/ req.is_waterfront
    \/ req.min_price # 0 \/ req.max_price # 0
    \/ req.min_year_built # 0 \/ req.max_year_built # 0
    \/ req.min_bedrooms # 0 \/ req.max_bedrooms # 0
    \/ req.min_bathrooms # 0 \/ req.max_bathrooms # 0

\* what a handler that goes through get_properties_from_attributes returns
Pipeline(result, req) ==
    IF labels # BackendColumns /\ ReadsColumns(req)
    THEN [err |-> "KeyError", total_properties |-> 0]
    ELSE [err |-> result.err, total_properties |-> result.total_properties]

\* the response of a handler that needs no frame of the catalog's rows kept
\* between two steps: explore, compare and the graph routes on filtered data
Handled_directly(th) ==
    CASE th.kind = "explore" -> Pipeline(explore(th.params, th.user), th.params)
      [] th.kind = "compare" ->
            [err |-> compare_properties_response_from_attributes(th.params).err,
             total_properties |-> 0]
      [] OTHER ->
            LET r == get_properties_from_attributes(th.params, 1, -1, FALSE,
                                                    FilterByIdsOf(th.params, th.user))
            IN Pipeline([err |-> r.err, total_properties |-> r.num], th.params)

\* the frame a graph route hands to prepare_..._graph_data
Prepared(f) == [err |-> "none", labels |-> FrameLabels(f), zpids |-> Index(FrameRows(f))]

GraphKinds == {"distribution_graph", "clustering_graph"}

\* a graph route on the whole catalog (useFilteredData false)
OnCatalog(th) == th.kind \in GraphKinds /\ ~th.useFilteredData

ThreadRequests ==
    { [kind |-> "explore", params |-> req, user |-> user, useFilteredData |-> TRUE] :
        req \in {BaseRequest, ScenarioRequest}, user \in Users }
    \cup { [kind |-> "compare", params |-> attrs, user |-> "user", useFilteredData |-> TRUE] :
        attrs \in {a \in CompareRequests : a.right_properties = << >>
                                            /\ a.annual_interest_rate = 650
                                            /\ a.left_properties[1].purchase_price = 200000} }
    \cup { [kind |-> kind, params |-> BaseRequest, user |-> "user", useFilteredData |-> b] :
        kind \in GraphKinds, b \in BOOLEAN }

\* a request reaches a free worker thread
Receive ==
    \E t \in Threads, r \in ThreadRequests :
        /\ threads[t] = Idle
        /\ threads' = [threads EXCEPT ![t] =
                          <<r @@ [stage |-> "received", frame |-> NoFrame, result |-> << >>]>>]
        /\ UNCHANGED <<catalog, saved, request, run, currentMonth, nowMonth, setIndexer,
                       quicksortTies, lastCall, remembered, called, labels, files,
                       series, users, mailbox, tasks>>

\* properties_df = BACKEND_PROPERTIES_DF.copy() (app.py 287, 324)
TakeCopy ==
    \E t \in Threads :
        /\ threads[t] # Idle
        /\ threads[t][1].stage = "received"
        /\ OnCatalog(threads[t][1])
        /\ threads' = [threads EXCEPT ![t] =
                          <<[threads[t][1] EXCEPT !.stage = "copied",
                                                  !.frame = <<copy(labels, catalog)>>]>>]
        /\ UNCHANGED <<catalog, saved, request, run, currentMonth, nowMonth, setIndexer,
                       quicksortTies, lastCall, remembered, called, labels, files,
                       series, users, mailbox, tasks>>

\* properties_df.rename(columns=create_rename_dict(), inplace=True) (288, 325)
RenameInPlace ==
    \E t \in Threads :
        /\ threads[t] # Idle
        /\ threads[t][1].stage = "copied"
        /\ LET f == threads[t][1].frame[1]
           IN /\ threads' = [threads EXCEPT ![t] =
                    <<[threads[t][1] EXCEPT !.stage = "renamed",
                                            !.frame = <<[f EXCEPT !.labels = FrontendColumns]>>]>>]
              /\ labels' = IF f.shared THEN FrontendColumns ELSE labels
        /\ UNCHANGED <<catalog, saved, request, run, currentMonth, nowMonth, setIndexer,
                       quicksortTies, lastCall, remembered, called, files,
                       series, users, mailbox, tasks>>

\* the handler computes its response
Handle ==
    \E t \in Threads :
        /\ threads[t] # Idle
        /\ \/ threads[t][1].stage = "received" /\ ~OnCatalog(threads[t][1])
           \/ threads[t][1].stage = "renamed"
        /\ threads' = [threads EXCEPT ![t] =
              <<[threads[t][1] EXCEPT
                    !.stage = "done",
                    !.frame = NoFrame,
                    !.result = IF OnCatalog(threads[t][1])
                               THEN <<Prepared(threads[t][1].frame[1])>>
                               ELSE <<Handled_directly(threads[t][1])>>]>>]
        /\ UNCHANGED <<catalog, saved, request, run, currentMonth, nowMonth, setIndexer,
                       quicksortTies, lastCall, remembered, called, labels, files,
                       series, users, mailbox, tasks>>

\* the response is sent and the thread is free again
Respond ==
    \E t \in Threads :
        /\ threads[t] # Idle
        /\ threads[t][1].stage = "done"
        /\ threads' = [threads EXCEPT ![t] = Idle]
        /\ UNCHANGED <<catalog, saved, request, run, currentMonth, nowMonth, setIndexer,
                       quicksortTies, lastCall, remembered, called, labels, files,
                       series, users, mailbox, tasks>>

NextThreads == Receive \/ TakeCopy \/ RenameInPlace \/ Handle \/ Respond

SpecThreads == InitCalc /\ [][NextThreads]_vars

----------------------------------------------------------------------------
(* What the specification expects of a request, stated without the code:   *)
(* a missing filter restricts nothing, an id restriction keeps only the    *)
(* caller's saved ids, ties keep the catalog's row order.                  *)

Req == request[1].params

User == request[1].user

Handled == run # << >>

R == run[1]

\* the static and address predicates of the specification for one row
SurvivesStatic(row, req, user) ==
    /\ (req.home_type \in {"ANY", Missing} \/ row.home_type = req.home_type)
    /\ (req.region \in {"ANY_AREA", Missing}
        \/ (req.region \in Regions /\ row.zip_code \in REGION_TO_ZIP_CODE(req.region)))
    /\ (req.city = Missing \/ row.city = Title(req.city))
    /\ (req.min_price = 0 \/ row.purchase_price >= req.min_price)
    /\ (req.max_price = 0 \/ row.purchase_price <= req.max_price)
    /\ (req.min_year_built = 0 \/ row.year_built >= req.min_year_built)
    /\ (req.max_year_built = 0 \/ row.year_built <= req.max_year_built)
    /\ (req.min_bedrooms = 0 \/ row.bedrooms >= req.min_bedrooms)
    /\ (req.max_bedrooms = 0 \/ row.bedrooms <= req.max_bedrooms)
    /\ (req.min_bathrooms = 0 \/ row.bathrooms >= req.min_bathrooms)
    /\ (req.max_bathrooms = 0 \/ row.bathrooms <= req.max_bathrooms)
    /\ (req.is_waterfront => row.is_waterfront = "True")
    /\ (req.is_saved => row.zpid \in SavedIdsOf(user))
    /\ (req.property_address = << >>
        \/ StrContains(row.street_address, req.property_address))

\* the rows the specification expects to survive the static and address filters
ExpectedSurvivors(req, user) ==
    SelectSeq(catalog, LAMBDA row : SurvivesStatic(row, req, user))

\* the rows the specification expects a request to match, in catalog order
ExpectedMatches(req, user) ==
    LET Cashflows(row) ==
            req.is_cashflowing =>
                MetricsRow(row, DownPaymentOf(req)).monthly_rental_income >= 0
    IN SelectSeq(ExpectedSurvivors(req, user), Cashflows)

\* position of a property in the catalog's natural row order
NaturalPosition(zpid) == CHOOSE i \in 1..Len(catalog) : catalog[i].zpid = zpid

\* the matches with their rounded metrics, stably sorted by the request's key
ExpectedSorted(req, user) ==
    LET m == ExpectedMatches(req, user)
        full == ConcatMetrics(m, calculate_dynamic_metrics(m, DownPaymentOf(req)))
        col == FRONTEND_COL_NAME_TO_BACKEND_COL_NAME(SortByOf(req))
        asc == AscendingOf(req)
        n == Len(full)
        Before(i, j) ==
            \/ (asc /\ full[i][col] < full[j][col])
            \/ (~asc /\ full[i][col] > full[j][col])
            \/ (full[i][col] = full[j][col] /\ i < j)
        Rank(i) == 1 + Cardinality({j \in 1..n : Before(j, i)})
    IN [k \in 1..n |-> full[CHOOSE i \in 1..n : Rank(i) = k]]

RECURSIVE Flatten(_)
Flatten(ss) == IF ss = << >> THEN << >> ELSE Head(ss) \o Flatten(Tail(ss))

\* the ids on pages 1..total_pages of a request, page after page
AllPages(req, user) ==
    Flatten([p \in 1..explore(req, user).total_pages |->
                Index(explore([req EXCEPT !.current_page = p], user).properties)])

\* a request that names a home type and a region and asks for neither the
\* cashflow filter nor the saved-only restriction nor the series metrics
Plain(req) ==
    /\ req.home_type # Missing
    /\ req.region # Missing
    /\ ~req.is_cashflowing
    /\ ~req.is_saved
    /\ ~req.is_advanced_search

----------------------------------------------------------------------------
(* The claims.                                                             *)

\* C1: pagination law.  For every request (page size >= 1), the pages
\* 1..total_pages returned for it, concatenated, hold every matching property
\* exactly once: no duplicates, no omissions.
C1_PaginationLaw ==
    Handled /\ Plain(Req) /\ PerPageOf(Req) >= 1 =>
        LET ids == AllPages(Req, User)
        IN /\ Len(ids) = Len(ExpectedMatches(Req, User))
           /\ Range(ids) = IndexSet(ExpectedMatches(Req, User))

\* C2: for a 1-indexed page and page size >= 1 the returned rows are positions
\* [(page-1)*size, page*size) of the sorted matching set, total_pages is
\* ceil(total / size), total_properties is the number of matches, and a page
\* beyond the last is an empty slice, not an error.
C2_PageSlice ==
    Handled /\ Plain(Req) /\ PageOf(Req) >= 1 /\ PerPageOf(Req) >= 1 =>
        LET sorted == ExpectedSorted(Req, User)
            size == PerPageOf(Req)
        IN /\ R.status = "ok"
           /\ R.total_properties = Len(sorted)
           /\ R.total_pages = Ceil(Len(sorted), size)
           /\ Index(R.properties)
                = Index(Slice(sorted, (PageOf(Req) - 1) * size, PageOf(Req) * size))

\* C3: a request that matches no property gets a well-formed empty result:
\* an empty sequence of properties, zero properties, zero pages, no error.
C3_EmptyResult ==
    Handled /\ Plain(Req) /\ ExpectedMatches(Req, User) = << >> =>
        /\ R.status = "ok"
        /\ R.properties = << >>
        /\ R.properties_json = "list"
        /\ R.total_properties = 0
        /\ R.total_pages = 0

\* some two matches of the request have the same value in the sort column
HasTies(req, user) ==
    LET s == ExpectedSorted(req, user)
        col == FRONTEND_COL_NAME_TO_BACKEND_COL_NAME(SortByOf(req))
    IN \E i, j \in 1..Len(s) : i # j /\ s[i][col] = s[j][col]

\* C4: sorting is stable.  The result is returned, and any two of its rows
\* with equal sort keys are in the catalog's natural row order.
C4_StableSort ==
    Handled /\ Plain(Req) /\ HasTies(Req, User) /\ PerPageOf(Req) >= 2 /\ PageOf(Req) = 1 =>
        LET col == FRONTEND_COL_NAME_TO_BACKEND_COL_NAME(SortByOf(Req))
            rows == R.properties
        IN /\ R.status = "ok"
           /\ \A i, j \in 1..Len(rows) :
                i < j /\ rows[i][col] = rows[j][col] =>
                    NaturalPosition(rows[i].zpid) < NaturalPosition(rows[j].zpid)

\* some filter, financing or sort field is missing or empty
SomeFieldMissing(req) ==
    \/ req.region = Missing \/ req.home_type = Missing
    \/ req.min_price = 0 \/ req.max_price = 0
    \/ req.min_year_built = 0 \/ req.max_year_built = 0
    \/ req.min_bedrooms = 0 \/ req.max_bedrooms = 0
    \/ req.min_bathrooms = 0 \/ req.max_bathrooms = 0
    \/ req.sortBy = Missing \/ req.sortOrder = Missing
    \/ req.down_payment_percentage = 0 \/ req.override_annual_mortgage_rate = 0

\* C5: with any of the filter, financing and sort fields missing or empty the
\* pipeline substitutes the permissive default and returns a result: it never
\* raises, and a missing filter restricts nothing.
C5_PermissiveDefaults ==
    Handled /\ SomeFieldMissing(Req) =>
        /\ R.status = "ok"
        /\ R.total_properties = Len(ExpectedMatches(Req, User))

\* C6: the request {home_type: "ANY", min_price: 250000} yields exactly the
\* properties priced at least 250000 (the 300000 and 400000 ones), and their
\* count.
C6_MinPriceScenario ==
    Handled /\ Req = ScenarioRequest =>
        LET wanted == {catalog[i].zpid : i \in {k \in 1..Len(catalog) :
                                                catalog[k].purchase_price >= 250000}}
        IN /\ R.err = "none"
           /\ Range(R.filtered) = wanted
           /\ R.total_properties = Cardinality(wanted)

\* C7: when only the saved properties are asked for (is_saved), every property
\* that passes the filters, and so every property of the result, is in the
\* caller's saved set; an empty saved set yields no property.
C7_SavedOnly ==
    Handled /\ Req.is_saved =>
        /\ Range(R.filtered) \subseteq SavedIdsOf(User)
        /\ IndexSet(R.properties) \subseteq SavedIdsOf(User)

\* C8: the cashflow filter runs after the dynamic metrics: a request with
\* is_cashflowing (and otherwise valid parameters) passes the static stage,
\* gets its metrics, and returns only properties with monthly_rental_income >= 0.
C8_CashflowAfterMetrics ==
    Handled /\ Req.is_cashflowing /\ Req.home_type # Missing /\ Req.region # Missing
    /\ ~Req.is_saved /\ ~Req.is_advanced_search =>
        /\ R.stage = "done"
        /\ \A i \in 1..Len(R.properties) : R.properties[i].monthly_rental_income >= 0

\* C9: the calculator is invoked only on the properties that survived the
\* static and address filters, and the invocation returns one metrics row per
\* such property (the pipeline goes on past the call).
C9_MetricsOnSurvivors ==
    Handled /\ R.stage # "static filter" =>
        /\ Range(R.calc_arg) \subseteq IndexSet(ExpectedSurvivors(Req, User))
        /\ R.stage # "dynamic metrics"

\* C10: two direct calls of the calculator with the same frame and the same
\* down payment return the same rows, whatever calls with other arguments,
\* requests and calendar months came in between.
C10_Deterministic ==
    remembered # NoCall /\ lastCall # NoCall
    /\ remembered[1].df = lastCall[1].df /\ remembered[1].pct = lastCall[1].pct
        => remembered[1].out = lastCall[1].out

\* a call is repeated after a call with other arguments and a change of
\* month, while an explore request is being handled
C10_Witness ==
    /\ remembered # NoCall /\ lastCall # NoCall
    /\ remembered[1].df = lastCall[1].df /\ remembered[1].pct = lastCall[1].pct
    /\ remembered[1].between
    /\ remembered[1].at # lastCall[1].at
    /\ Len(lastCall[1].df) >= 2
    /\ request # << >>

\* C11: get_annual_pmi_rate is 0 from 20 % up, the highest tabulated rate below
\* the lowest breakpoint, on the line between the two adjacent breakpoints in
\* between, and never higher for a higher down payment.
C11_PmiRate ==
    IsCall("get_annual_pmi_rate") =>
        LET x == called[1].x
            out == called[1].out
            prev == called[1].prev
        IN /\ (x >= 20 => out = 0)
           /\ (x < 3 => out = 6000)
           /\ \A k \in 1..(Len(PmiBreakpoints) - 1) :
                 LET a == PmiBreakpoints[k]
                     b == PmiBreakpoints[k + 1]
                 IN a <= x /\ x <= b /\ x < 20 =>
                        out * (b - a) = PmiRateAt(a) * (b - x) + PmiRateAt(b) * (x - a)
           /\ (prev # << >> /\ prev[1].x <= x => out <= prev[1].out)

\* a rate strictly between two breakpoints follows one strictly between two others
C11_Witness ==
    /\ IsCall("get_annual_pmi_rate")
    /\ called[1].prev # << >>
    /\ called[1].prev[1].x = 4
    /\ called[1].x = 12

\* C12: for a record with non-negative price, rates, insurance and HOA and a
\* down-payment fraction in (0, 1], calculate_monthly_costs returns
\* monthly_costs >= 0.
C12_MonthlyCostsNonNegative ==
    IsCall("calculate_monthly_costs") =>
        LET row == called[1].row
            pct == called[1].pct
        IN /\ row.purchase_price >= 0 /\ row.annual_mortgage_rate >= 0
           /\ row.annual_property_tax_rate >= 0
           /\ row.monthly_homeowners_insurance >= 0 /\ row.monthly_hoa >= 0
           /\ 0 < pct /\ pct <= 100
           => called[1].out.monthly_costs >= 0

\* a financed purchase with every cost term positive, and a purchase that
\* costs nothing per month, have both been priced
C12_Witness ==
    /\ IsCall("calculate_monthly_costs")
    /\ called[1].pct = 5
    /\ called[1].row.purchase_price = 400000
    /\ called[1].row.annual_mortgage_rate = 700
    /\ called[1].row.annual_property_tax_rate = 100
    /\ called[1].row.monthly_hoa = 300
    /\ called[1].out.monthly_costs > 0

\* C13: every caller that passes a mortgage rate of its own completes: explore
\* with override_annual_mortgage_rate returns a response, and compare returns
\* one cost triple per listed property, the payment following the request's rate.
C13_OverrideAccepted ==
    /\ (Handled /\ Req.override_annual_mortgage_rate # 0 => R.err = "none")
    /\ (IsCall("compare") =>
            LET attrs == called[1].attrs
                out == called[1].out
            IN /\ out.err = "none"
               /\ Len(out.df) = Len(attrs.left_properties) + Len(attrs.right_properties)
               /\ \A i \in 1..Len(out.df) :
                     out.df[i].monthly_costs =
                        calculate_monthly_costs(
                            [out.df[i] EXCEPT !.annual_mortgage_rate = attrs.annual_interest_rate],
                            out.df[i].down_payment_percentage).monthly_costs)

\* C14: a property listed at its breakeven price has a net monthly cash flow
\* (monthly_rental_income) of zero, within a tolerance of BreakevenTolerance cents.
C14_BreakevenIsZeroCashFlow ==
    IsCall("calculate_dynamic_metrics") =>
        \A i \in 1..Len(called[1].df) :
            called[1].df[i].purchase_price = called[1].out[i].breakeven_price =>
                Abs(called[1].out[i].monthly_rental_income) <= BreakevenTolerance

C16_CoCDefinitions ==
    IsCall("calculate_dynamic_metrics") =>
        \A i \in 1..Len(called[1].out) :
            LET c == calculate_monthly_costs(called[1].df[i], called[1].pct)
                annual == MONTHS_IN_YEAR * called[1].out[i].monthly_rental_income
            IN /\ called[1].out[i].CoC = Ratio(annual, c.cash_invested)
               /\ called[1].out[i].CoC_no_prepaids =
                      Ratio(annual, c.cash_invested - c.prepaid_costs)
               /\ called[1].out[i].cap_rate =
                      (100 * annual) \div called[1].df[i].purchase_price

\* the rows i and j of the frame differ in nothing but the price (and the id)
OnlyPriceDiffers(df, i, j) ==
    [df[i] EXCEPT !.zpid = 0, !.purchase_price = 0]
        = [df[j] EXCEPT !.zpid = 0, !.purchase_price = 0]

\* C17 as stated: among properties that differ only in purchase price, under
\* one down payment, a strictly higher price never has a strictly higher cap_rate.
C17_CapRateOrder ==
    IsCall("calculate_dynamic_metrics") =>
        \A i, j \in 1..Len(called[1].df) :
            /\ OnlyPriceDiffers(called[1].df, i, j)
            /\ called[1].df[i].purchase_price < called[1].df[j].purchase_price
            => called[1].out[j].cap_rate <= called[1].out[i].cap_rate

\* C17 as amended: the same, for properties whose rent estimate net of vacancy
\* exceeds the insurance and HOA charges.
C17_CapRateOrderWhenRentCoversCharges ==
    IsCall("calculate_dynamic_metrics") =>
        \A i, j \in 1..Len(called[1].df) :
            /\ OnlyPriceDiffers(called[1].df, i, j)
            /\ called[1].df[i].monthly_restimate * (100 - VACANCY_RATE_PCT)
                 > 100 * (called[1].df[i].monthly_homeowners_insurance
                          + called[1].df[i].monthly_hoa)
            /\ called[1].df[i].purchase_price < called[1].df[j].purchase_price
            => called[1].out[j].cap_rate <= called[1].out[i].cap_rate

\* the scenario: prices 200000, 300000, 400000 under 20 % down, the cap rates
\* strictly falling
C17_Witness ==
    /\ IsCall("calculate_dynamic_metrics")
    /\ called[1].pct = 20
    /\ Len(called[1].df) = 3
    /\ called[1].df[1].monthly_restimate = 2500
    /\ called[1].df[1].monthly_hoa = 300
    /\ called[1].out[1].cap_rate > called[1].out[2].cap_rate
    /\ called[1].out[2].cap_rate > called[1].out[3].cap_rate

\* the direct call of calculate_series_metrics_df and its arguments
SeriesCalled == IsCall("calculate_series_metrics_df")

\* the requested identifiers of the call (none when zpids is None)
Requested == IF called[1].zpids = << >> THEN {} ELSE called[1].zpids[1]

\* the identifiers the call computes rows for when it is given a set
Considered ==
    IF called[1].zpids # << >> /\ called[1].zpids[1] # {}
    THEN called[1].zpids[1] \cap DOMAIN called[1].store
    ELSE DOMAIN called[1].store

\* C18: given a set of requested identifiers, empty or not, the result has one
\* row for each of them and no other row; every row has the nine metric fields,
\* none of them an empty string, and a property whose observations were all
\* dropped has "Insufficient data after dropping NaNs" in all nine.
C18_OneRowPerRequested ==
    SeriesCalled /\ called[1].zpids # << >> =>
        LET out == called[1].out
            store == called[1].store
        IN /\ {out[i].zpid : i \in 1..Len(out)} = Requested
           /\ \A i, j \in 1..Len(out) : out[i].zpid = out[j].zpid => i = j
           /\ \A i \in 1..Len(out) :
                 /\ DOMAIN out[i].cells = Range(metric_keys)
                 /\ \A key \in Range(metric_keys) : out[i].cells[key] # ""
                 /\ (out[i].zpid \in DOMAIN store /\ dropna(store[out[i].zpid]) = << >>
                     => out[i].cells = AllCells("Insufficient data after dropping NaNs"))

\* C19: a property with exactly one valid return observation gets a row whose
\* nine metrics are all "Insufficient data points".
C19_SingleObservation ==
    SeriesCalled =>
        \A z \in Considered :
            Len(dropna(called[1].store[z])) = 1 =>
                \E i \in 1..Len(called[1].out) :
                    /\ called[1].out[i].zpid = z
                    /\ called[1].out[i].cells = AllCells("Insufficient data points")

\* a property with one valid observation is requested together with one whose
\* metrics are computed
C19_Witness ==
    /\ SeriesCalled
    /\ called[1].zpids = <<{1, 2}>>
    /\ DOMAIN called[1].store = {1, 2}
    /\ Len(dropna(called[1].store[1])) = 1
    /\ Len(called[1].out) = 2
    /\ called[1].out[2].cells["Sharpe Ratio"] = Number

\* C20: no cell of a risk row is NaN or Inf, and Sortino is "Zero downside
\* deviation in returns" whenever the deviation of the negative excess returns
\* is zero or undefined.
C20_NoNaNLeak ==
    SeriesCalled =>
        \A i \in 1..Len(called[1].out) :
            LET cells == called[1].out[i].cells
            IN /\ \A key \in Range(metric_keys) : cells[key] # NotANumber
               /\ (cells["Sharpe Ratio"] = Number =>
                      LET price == ExcessPriceReturns(dropna(called[1].store[called[1].out[i].zpid]))
                          downside == SelectSeq(price, LAMBDA x : x < 0)
                      IN ZeroStd(downside) =>
                            cells["Sortino Ratio"] = "Zero downside deviation in returns")

\* what one call of update_data_if_needed during the last start did
DataCalled == IsCall("initialize_data")

\* the download of ticker t was tried and brought no series
FetchFailed(t) ==
    /\ t \in DOMAIN called[1].calls
    /\ called[1].calls[t].fetched
    /\ called[1].downloads[t] \in {"nothing", "error"}

\* C21: when the refresh of a ticker fails (the download raises or brings
\* nothing) and a cached file of the ticker exists, the call serves the
\* cached copy, leaves the file as it was and raises nothing.
C21_StaleCopyServed ==
    DataCalled =>
        \A t \in Tickers :
            (FetchFailed(t) /\ called[1].before[t] # NoFile) =>
                /\ ~called[1].calls[t].raised
                /\ called[1].calls[t].data = called[1].before[t][1].data
                /\ files[t] = called[1].before[t]

\* the age in half days at which a file stops being fresh
StaleAge == HalfDaysPerDay * MAX_DATA_AGE_DAYS

\* C26: update_data_if_needed downloads exactly when the ticker's file is
\* missing or at least MAX_DATA_AGE_DAYS old; a fresh file is neither
\* fetched nor changed; the series the process holds change only when the
\* process starts or stops, never while a request is being served.
C26_FreshnessPolicy ==
    [][ /\ DataCalled' =>
            \A t \in DOMAIN called'[1].calls :
                LET before == called'[1].before[t]
                    old == before = NoFile \/ before[1].age >= StaleAge
                IN /\ called'[1].calls[t].fetched <=> old
                   /\ ~old => /\ files'[t] = before
                              /\ called'[1].calls[t].data = before[1].data
        /\ series' # series =>
            /\ request = << >> /\ request' = << >>
            /\ series = NotLoaded \/ series' = NotLoaded ]_vars

\* a start that found one file exactly MAX_DATA_AGE_DAYS old and fetched it,
\* and one fresh file that it left alone
C26_Witness ==
    /\ DataCalled
    /\ \E t, u \in DOMAIN called[1].calls :
        /\ called[1].before[t] # NoFile
        /\ called[1].before[t][1].age = StaleAge
        /\ called[1].calls[t].fetched
        /\ called[1].before[u] # NoFile
        /\ called[1].before[u][1].age < StaleAge
        /\ ~called[1].calls[u].fetched
        /\ files[u] = called[1].before[u]

\* the response a request gets when no other request is in flight
Alone(th) ==
    IF OnCatalog(th)
    THEN [err |-> "none", labels |-> FrontendColumns, zpids |-> Index(LoadCatalog)]
    ELSE Handled_directly(th)

\* C22: no request changes the process-wide catalog: under any interleaving
\* of explore, compare, distribution-graph and clustering-graph requests
\* the catalog keeps the identifiers, field values, row order and column
\* labels it was loaded with, and every finished request holds the response
\* it would have got alone.
C22_CatalogReadOnly ==
    /\ catalog = LoadCatalog
    /\ labels = BackendColumns
    /\ \A t \in Threads :
        (threads[t] # Idle /\ threads[t][1].stage = "done") =>
            threads[t][1].result = <<Alone(threads[t][1])>>

\* a graph request on the whole catalog is finished while another request
\* that renamed the columns of its own frame is still in flight, and an
\* explore request finished beside a renamed frame
C22_Witness ==
    \E t, u \in Threads :
        /\ t # u
        /\ threads[t] # Idle /\ threads[u] # Idle
        /\ threads[t][1].stage = "done"
        /\ threads[t][1].kind \in GraphKinds \cup {"explore"}
        /\ threads[u][1].stage = "renamed"

\* the rows of the result that carry identifier z
RowsOf(z) == {i \in 1..Len(called[1].out) : called[1].out[i].zpid = z}

\* the requested identifiers that the history store does not hold
MissingRequested == Requested \ DOMAIN called[1].store

\* C23: every requested identifier without an entry in the history store
\* gets one risk row whose nine metrics all read "Missing zestimate
\* history", on every return path of calculate_series_metrics_df.
C23_MissingHistoryMarked ==
    SeriesCalled =>
        \A z \in MissingRequested :
            /\ Cardinality(RowsOf(z)) = 1
            /\ \A i \in RowsOf(z) :
                  called[1].out[i].cells = AllCells("Missing zestimate history")

\* a call that returned early because none of the requested identifiers has
\* a history, while the store holds other properties
C23_Witness ==
    /\ SeriesCalled
    /\ MissingRequested # {}
    /\ Requested \cap DOMAIN called[1].store = {}
    /\ DOMAIN called[1].store # {}
    /\ Len(called[1].out) = Cardinality(MissingRequested)

GroupCalled == IsCall("calculate_series_metrics")

\* the cumulative return of the called group at its k-th date
Cum(k) == CumulativeReturn(called[1].group, k)

\* the cumulative return is somewhere below a value it had before
FallsBelowPeak ==
    \E k \in 1..Len(called[1].group) : \E j \in 1..k : Cum(k) < Cum(j)

\* the declines from a positive value at j to the value at a later k
Declines ==
    {pr \in (1..Len(called[1].group)) \X (1..Len(called[1].group)) :
        pr[1] <= pr[2] /\ Cum(pr[1]) > 0}

\* the relative decline of pr is at least that of qr
DeclinesAtLeast(pr, qr) ==
    (Cum(pr[1]) - Cum(pr[2])) * Cum(qr[1]) >= (Cum(qr[1]) - Cum(qr[2])) * Cum(pr[1])

LargestDeclines == {pr \in Declines : \A qr \in Declines : DeclinesAtLeast(pr, qr)}

\* the first date at which the largest decline is reached, and the peak
\* the return fell from
ExpectedTrough == MinOf(Ascending({pr[2] : pr \in LargestDeclines}))

ExpectedPeak == MaxOf([j \in 1..ExpectedTrough |-> Cum(j)])

ExpectedRecoveries ==
    {k \in ExpectedTrough..Len(called[1].group) : Cum(k) >= ExpectedPeak}

\* C25: Max Drawdown is the largest peak-to-trough decline of the
\* cumulative return; when the return never falls below an earlier peak
\* both cells read "No drawdown detected"; otherwise Recovery Time is the
\* number of days from the trough to the first later date on which the
\* return is back at the peak it fell from, or "Recovery not achieved".
C25_Drawdown ==
    (GroupCalled /\ called[1].out["Alpha"] # "Insufficient variance in returns") =>
        LET cells == called[1].out
        IN IF ~FallsBelowPeak
           THEN /\ cells["Max Drawdown (%)"] = "No drawdown detected"
                /\ cells["Recovery Time (Days)"] = "No drawdown detected"
           ELSE /\ cells["Max Drawdown (%)"] = Number
                /\ called[1].max_drawdown =
                      RoundDiv((ExpectedPeak - Cum(ExpectedTrough)) * 10000, ExpectedPeak)
                /\ IF ExpectedRecoveries = {}
                   THEN cells["Recovery Time (Days)"] = "Recovery not achieved"
                   ELSE /\ cells["Recovery Time (Days)"] = Number
                        /\ called[1].recovery_time =
                              DateOf(MinOf(Ascending(ExpectedRecoveries)))
                              - DateOf(ExpectedTrough)

Magnitudes(xs) == [i \in 1..Len(xs) |-> Abs(xs[i])]

\* the largest magnitude is more than ten times the smallest, which is not zero
MagnitudeRatioExceeds(xs) ==
    /\ MinOf(Magnitudes(xs)) > 0
    /\ MaxOf(Magnitudes(xs)) > 10 * MinOf(Magnitudes(xs))

ExtremeFlagged ==
    /\ called[1].out["Alpha"] = "Extreme values detected"
    /\ called[1].out["Beta"] = "Extreme values detected"

\* C24: for a property with at least two observations and non-zero
\* variance, Alpha and Beta both read "Extreme values detected" exactly when
\* the largest excess-return magnitude is more than ten times the smallest,
\* for the property or for the index; the other seven metrics are computed
\* all the same.
C24_ExtremeValues ==
    (/\ GroupCalled
     /\ Len(called[1].group) >= 2
     /\ ~ZeroStd(ExcessPriceReturns(called[1].group))
     /\ ~ZeroStd(ExcessStockReturns(called[1].group))) =>
        LET cells == called[1].out
        IN /\ ExtremeFlagged <=>
                (\/ MagnitudeRatioExceeds(ExcessPriceReturns(called[1].group))
                 \/ MagnitudeRatioExceeds(ExcessStockReturns(called[1].group)))
           /\ ExtremeFlagged =>
                /\ cells["Sharpe Ratio"] = Number
                /\ cells["Sortino Ratio"] \in {Number, "Zero downside deviation in returns"}
                /\ cells["Max Drawdown (%)"] \in {Number, "No drawdown detected"}
                /\ cells["Recovery Time (Days)"]
                      \in {Number, "No drawdown detected", "Recovery not achieved"}
                /\ \A key \in {"Kendall Tau", "Spearman Rho", "Historical VaR"} :
                      cells[key] = Number

MetricsCalled == IsCall("calculate_dynamic_metrics")

SaveToggled == IsCall("toggle_save")

\* C28: toggle_save is an involution on the authenticated user's saved set:
\* after a toggle the stored set holds the id exactly when it did not before,
\* the returned 'saved' flag is the id's membership after the toggle, no other
\* id's membership changes, a second toggle of the same id restores the
\* original set, and a later explore by the same user reports Save = true
\* for exactly the ids of the set.
C28_ToggleSaveInvolution ==
    SaveToggled =>
        LET t == called[1]
        IN /\ (t.property_id \in saved) = (t.property_id \notin t.before)
           /\ t.saved = (t.property_id \in saved)
           /\ saved \ {t.property_id} = t.before \ {t.property_id}
           /\ (t.prev # << >> /\ t.prev[1].property_id = t.property_id
               => saved = t.prev[1].before)
           /\ (Handled /\ User = "user" =>
                  /\ R.err = "none"
                  /\ \A zpid \in IndexSet(R.properties) :
                        R.properties[zpid].Save = (zpid \in saved))

ConfirmedEmails == {row.email : row \in {r \in users : r.confirmed}}

LoggedIn == IsCall("start_authenticated_session") /\ called[1].tokens

VerifiedBy(email) ==
    /\ IsCall("email_verification")
    /\ called[1].token \in mailbox
    /\ called[1].token.data = email
    /\ called[1].token.salt = VERIFICATION_SALT
    /\ called[1].token.age * TokenTick <= VERIFICATION_EXPIRATION

\* C29: in any sequence of register, email-verification and login requests,
\* a login issues tokens only for an email whose user exists, whose stored
\* hash matches the supplied password and whose confirmed flag is true; an
\* email becomes confirmed only in an email_verification request that
\* carries an unexpired token generated for this email with the
\* verification salt; and no email ever has two users.
C29_AuthSafety ==
    [][ /\ (LoggedIn' =>
              \E row \in users' :
                  /\ row.email = called'[1].user_email
                  /\ check_password_hash(row.password, called'[1].user_password)
                  /\ row.confirmed)
        /\ \A email \in ConfirmedEmails' \ ConfirmedEmails : VerifiedBy(email)'
        /\ \A email \in Emails : Cardinality(load_user(users, email)') <= 1
        /\ \A row \in users' \ users :
              \/ load_user(users, row.email) = {}
              \/ load_user(users, row.email) = {[row EXCEPT !.confirmed = FALSE]}
      ]_vars

\* the newly registered email has been verified and has logged in, while an
\* aged reset token for it is in the mailbox
C29_Witness ==
    /\ LoggedIn
    /\ called[1].user_email = "new@gmail.com"
    /\ \E token \in mailbox : token.salt = RESET_SALT /\ token.data = "new@gmail.com"

\* C30: the send_async_email task terminates: an email is attempted at most
\* 4 times (the first attempt and max_retries = 3 retries), a retry is
\* scheduled only by an attempt that failed, and no attempt is made once a
\* send has succeeded.
C30_EmailTaskTerminates ==
    [][ \A i \in 1..Len(tasks) :
          /\ tasks'[i].attempts <= max_retries + 1
          /\ (tasks'[i].retries > tasks[i].retries =>
                 /\ tasks'[i].attempts = tasks[i].attempts + 1
                 /\ tasks'[i].sent = tasks[i].sent)
          /\ (tasks'[i].attempts > tasks[i].attempts => tasks[i].sent = 0)
      ]_vars

====
